---- MODULE Spec2Model ----
(***************************************************************************)
(* Model of the budget-aware chunk/merge content synthesis of              *)
(* app/agents/writer.py (WriterAgent).                                     *)
(*                                                                         *)
(* Text is a tuple of one-character strings.  A JSON value is a tagged     *)
(* record: Num(n), Str(s), Lst(xs), Map(kv); a mapping (Python dict) is    *)
(* the ordered tuple of its <<key, value>> pairs, keys being texts.        *)
(*                                                                         *)
(* Restrictions: texts are ASCII (the \uXXXX escapes json.dumps writes for *)
(* other characters are not modelled); _estimate_tokens takes its          *)
(* character-count branch (no tokenizer installed); the response-size      *)
(* strings are the defaults of app/config.py.                              *)
(***************************************************************************)
EXTENDS Integers, Sequences, FiniteSets, TLC

VARIABLES
    config,          \* app.config.config: the budgets and ceilings, fixed for a run
    section_name,    \* argument of _generate_structured_content
    section_type,    \* argument: "analytics" or "descriptive"
    content,         \* argument: the Payload (a mapping)
    pc,              \* position in _generate_structured_content / _merge_structured_outputs
    chunks,          \* local of _generate_structured_content
    digest_batches,  \* local of _generate_structured_content
    chunk_outputs,   \* local of _generate_structured_content / argument "outputs" of merge
    digests,         \* local of _merge_structured_outputs
    batches,         \* local of _merge_structured_outputs
    merged_outputs,  \* local of _merge_structured_outputs
    result,          \* the returned record
    sent,            \* the prompts handed to invoke_llm so far, by kind
    round_in,        \* len(merged_outputs) when the current merge round began
    response_text,   \* local "response" of _invoke_structured_response
    parsed_reply,    \* local "parsed" of _invoke_structured_response
    table_batches,   \* local "batches" of _summarize_table_values
    table_parsed,    \* local "parsed" of _summarize_table_values
    table_at,        \* the batch and the key the loops of _summarize_table_values are at
    summaries,       \* local of _summarize_table_values, and what it returns
    rewrite_count,   \* local of _summarize_table_values
    call_count,      \* local of _summarize_table_values
    raw_input,       \* AgentState['raw_input']
    client_name,     \* AgentState['client_name']
    is_valid,        \* AgentState['is_valid']
    validation_errors,    \* AgentState['validation_errors']
    sections_identified,  \* AgentState['sections_identified']
    has_analytics,   \* AgentState['has_analytics']
    has_descriptive, \* AgentState['has_descriptive']
    est_prompt_len,  \* len(prompt), argument of _estimate_prompt_tokens
    est_system_len,  \* len(system_prompt), argument of _estimate_prompt_tokens
    est_tokens,      \* what _estimate_prompt_tokens returns
    node,            \* the node of the workflow graph that runs next
    visited,         \* the agents that have run, in order
    error            \* AgentState['error']

writer_vars == <<config, section_name, section_type, content, pc, chunks, digest_batches,
                 chunk_outputs, digests, batches, merged_outputs, result, sent, round_in>>

invoker_vars == <<response_text, parsed_reply>>

\* the state outside _generate_structured_content and the functions it calls
table_vars == <<table_batches, table_parsed, table_at, summaries, rewrite_count,
                call_count>>
analyser_vars == <<raw_input, client_name, is_valid, validation_errors,
                   sections_identified, has_analytics, has_descriptive>>
estimator_vars == <<est_prompt_len, est_system_len, est_tokens>>
graph_vars == <<node, visited, error>>
beside_writer == <<invoker_vars, table_vars, analyser_vars, estimator_vars, graph_vars>>
\* the state outside _invoke_structured_response
beside_invoker == <<table_vars, analyser_vars, estimator_vars, graph_vars>>
\* the state outside _summarize_table_values and the writer's arguments
beside_table == <<invoker_vars, analyser_vars, estimator_vars, graph_vars>>

vars == <<writer_vars, beside_writer>>

----------------------------------------------------------------------------
(* Values *)

Num(n) == [t |-> "num", n |-> n]
Str(s) == [t |-> "str", s |-> s]
Lst(xs) == [t |-> "list", xs |-> xs]
Map(kv) == [t |-> "dict", kv |-> kv]

IsStr(v) == v.t = "str"
IsList(v) == v.t = "list"
IsDict(v) == v.t = "dict"

Min(a, b) == IF a <= b THEN a ELSE b
Max(a, b) == IF a >= b THEN a ELSE b

\* text[:n]
Take(s, n) == SubSeq(s, 1, Min(n, Len(s)))
\* text[n:]
Drop(s, n) == SubSeq(s, n + 1, Len(s))

MinOf(S) == CHOOSE x \in S : \A y \in S : x <= y
MaxOf(S) == CHOOSE x \in S : \A y \in S : x >= y

\* the concatenation of a sequence of sequences
RECURSIVE Flatten(_)
Flatten(ss) ==
    IF ss = <<>> THEN <<>>
    ELSE IF Len(ss) = 1 THEN ss[1]
    ELSE LET h == Len(ss) \div 2
         IN  Flatten(SubSeq(ss, 1, h)) \o Flatten(SubSeq(ss, h + 1, Len(ss)))

RECURSIVE SumSeq(_)
SumSeq(ns) == IF ns = <<>> THEN 0 ELSE Head(ns) + SumSeq(Tail(ns))

\* dict keys, in insertion order
Keys(kv) == [i \in 1..Len(kv) |-> kv[i][1]]
KeySet(kv) == {kv[i][1] : i \in 1..Len(kv)}
HasKey(kv, k) == \E i \in 1..Len(kv) : kv[i][1] = k
\* {**a, k: v}: an existing key keeps its position and takes the new value
DictSet(kv, k, v) ==
    IF HasKey(kv, k)
    THEN [i \in 1..Len(kv) |-> IF kv[i][1] = k THEN <<k, v>> ELSE kv[i]]
    ELSE Append(kv, <<k, v>>)
\* {**a, **b}
RECURSIVE DictUpdate(_, _)
DictUpdate(a, b) ==
    IF b = <<>> THEN a
    ELSE DictUpdate(DictSet(a, Head(b)[1], Head(b)[2]), Tail(b))

----------------------------------------------------------------------------
(* Python str helpers *)

\* the code-fence character (a string cannot hold it literally)
Backtick == "BACKTICK"

IsSpace(c) == c \in {" ", "\n", "\t", "\r"}

\* the positions of s that hold no whitespace
Inked(s) == {i \in 1..Len(s) : ~IsSpace(s[i])}

rstrip(s) == IF Inked(s) = {} THEN <<>> ELSE SubSeq(s, 1, MaxOf(Inked(s)))
lstrip(s) == IF Inked(s) = {} THEN <<>> ELSE SubSeq(s, MinOf(Inked(s)), Len(s))
strip(s) == lstrip(rstrip(s))

StartsWith(s, p) == Len(s) >= Len(p) /\ SubSeq(s, 1, Len(p)) = p
EndsWith(s, p) == Len(s) >= Len(p) /\ SubSeq(s, Len(s) - Len(p) + 1, Len(s)) = p

\* str(n) of an integer
DigitChar(d) == <<"0", "1", "2", "3", "4", "5", "6", "7", "8", "9">>[d + 1]
RECURSIVE IntText(_)
IntText(n) ==
    IF n < 0 THEN <<"-">> \o IntText(-n)
    ELSE IF n < 10 THEN <<DigitChar(n)>>
    ELSE Append(IntText(n \div 10), DigitChar(n % 10))

----------------------------------------------------------------------------
(* json.dumps *)

\* one character inside a JSON string literal (ensure_ascii=True)
JsonEscape(c) ==
    CASE c = "\"" -> <<"\\", "\"">>
      [] c = "\\" -> <<"\\", "\\">>
      [] c = "\n" -> <<"\\", "n">>
      [] c = "\r" -> <<"\\", "r">>
      [] c = "\t" -> <<"\\", "t">>
      [] OTHER -> <<c>>

JsonString(s) ==
    <<"\"">> \o Flatten([i \in 1..Len(s) |-> JsonEscape(s[i])]) \o <<"\"">>

RECURSIVE JoinText(_, _)
JoinText(parts, sep) ==
    IF parts = <<>> THEN <<>>
    ELSE IF Len(parts) = 1 THEN parts[1]
    ELSE parts[1] \o sep \o JoinText(Tail(parts), sep)

\* json.dumps(v, ensure_ascii=True): separators ", " and ": "
RECURSIVE json_dumps(_)
json_dumps(v) ==
    CASE v.t = "num" -> IntText(v.n)
      [] v.t = "str" -> JsonString(v.s)
      [] v.t = "null" -> <<"n", "u", "l", "l">>
      [] v.t = "bool" -> IF v.b THEN <<"t", "r", "u", "e">>
                         ELSE <<"f", "a", "l", "s", "e">>
      [] v.t = "list" ->
            <<"[">> \o JoinText([i \in 1..Len(v.xs) |-> json_dumps(v.xs[i])],
                                <<",", " ">>) \o <<"]">>
      [] v.t = "dict" ->
            <<"{">> \o JoinText([i \in 1..Len(v.kv) |->
                                    JsonString(v.kv[i][1]) \o <<":", " ">>
                                        \o json_dumps(v.kv[i][2])],
                                <<",", " ">>) \o <<"}">>

\* len(json.dumps(v, indent=2, ensure_ascii=True)) for v nested d levels deep:
\* every item on its own line, indented 2 * (d + 1) spaces
RECURSIVE json_indent_len(_, _)
json_indent_len(v, d) ==
    CASE v.t = "num" -> Len(IntText(v.n))
      [] v.t = "str" -> Len(JsonString(v.s))
      [] v.t = "null" -> 4
      [] v.t = "bool" -> IF v.b THEN 4 ELSE 5
      [] v.t = "list" ->
            IF v.xs = <<>> THEN 2
            ELSE 1 + SumSeq([i \in 1..Len(v.xs) |->
                                1 + 2 * (d + 1) + json_indent_len(v.xs[i], d + 1)])
                   + (Len(v.xs) - 1) + 1 + 2 * d + 1
      [] v.t = "dict" ->
            IF v.kv = <<>> THEN 2
            ELSE 1 + SumSeq([i \in 1..Len(v.kv) |->
                                1 + 2 * (d + 1) + Len(JsonString(v.kv[i][1])) + 2
                                  + json_indent_len(v.kv[i][2], d + 1)])
                   + (Len(v.kv) - 1) + 1 + 2 * d + 1

----------------------------------------------------------------------------
(* Prompts and the size estimate *)

AnalyticsTemplateLen == 505
DescriptiveTemplateLen == 544
MergeTemplateLen == 488
DigestTemplateLen == 532
SystemPromptLen == 70
CharsPerToken == 4

\* the lengths of the size hints rendered into the prompt
response_spec(detailed) ==
    IF detailed
    THEN [paragraphs |-> Len(<<"4", "-", "6">>),
          bullets |-> Len(<<"7", "-", "1", "2">>),
          findings |-> Len(<<"4", "-", "7">>)]
    ELSE [paragraphs |-> Len(<<"2", "-", "3">>),
          bullets |-> Len(<<"3", "-", "7">>),
          findings |-> Len(<<"2", "-", "5">>)]

SpecLen(spec) == spec.paragraphs + spec.bullets + spec.findings

\* len(_structured_prompt(section_name, content_str, section_type, response_spec))
structured_prompt(name, content_len, type, spec) ==
    (IF type = "analytics" THEN AnalyticsTemplateLen ELSE DescriptiveTemplateLen)
        + SpecLen(spec) + Len(name) + content_len

\* _estimate_tokens on a text of the given length, the tokenizer being unavailable
estimate_tokens(len) ==
    IF len = 0 THEN 0 ELSE (len \div Max(CharsPerToken, 1)) + 1

estimate_prompt_tokens(prompt_len, system_len) ==
    estimate_tokens(prompt_len) + estimate_tokens(system_len)

\* the size the Fit Checker measures for a mapping
fits_tokens(name, type, mapping) ==
    estimate_prompt_tokens(
        structured_prompt(name, json_indent_len(Map(mapping), 0), type,
                          response_spec(FALSE)),
        SystemPromptLen)

fits_budget(name, type, mapping, budget) ==
    fits_tokens(name, type, mapping) <= budget

TruncationMarker ==
    <<".", ".", ".", " ", "[", "t", "r", "u", "n", "c", "a", "t", "e", "d", "]">>

truncate_text(text, max_chars) ==
    IF text = <<>> \/ Len(text) <= max_chars THEN text
    ELSE rstrip(Take(text, max_chars)) \o TruncationMarker

\* split_text taking whole windows only: a shorter last window is left out
split_text_whole_windows(text, max_chars) ==
    IF text = <<>> THEN << <<>> >>
    ELSE [i \in 1..(Len(text) \div max_chars) |->
             SubSeq(text, (i - 1) * max_chars + 1, i * max_chars)]

RECURSIVE split_text(_, _)
split_text(text, max_chars) ==
    IF text = <<>> THEN << <<>> >>
    ELSE IF Len(text) <= max_chars THEN <<text>>
    ELSE <<Take(text, max_chars)>> \o split_text(Drop(text, max_chars), max_chars)

----------------------------------------------------------------------------
(* Splitter and Packer *)

One(key, value) == << <<key, value>> >>

\* split_list_loop with the item that overflowed the fragment left out of the next
RECURSIVE split_list_loop_item_lost(_, _, _, _, _, _, _, _, _)
split_list_loop_item_lost(cfg, name, type, key, value, budget, i, out, current) ==
    IF i > Len(value)
    THEN IF current # <<>> THEN Append(out, One(key, Lst(current))) ELSE out
    ELSE
        LET item == value[i]
            candidate == Append(current, item)
        IN  IF fits_budget(name, type, One(key, Lst(candidate)), budget)
            THEN split_list_loop_item_lost(cfg, name, type, key, value, budget, i + 1,
                                           out, candidate)
            ELSE split_list_loop_item_lost(cfg, name, type, key, value, budget, i + 1,
                     IF current # <<>> THEN Append(out, One(key, Lst(current))) ELSE out,
                     <<>>)

\* the loop of _split_list_item from item i on
RECURSIVE split_list_loop(_, _, _, _, _, _, _, _, _)
split_list_loop(cfg, name, type, key, value, budget, i, out, current) ==
    IF i > Len(value)
    THEN IF current # <<>> THEN Append(out, One(key, Lst(current))) ELSE out
    ELSE
        LET item == value[i]
            candidate == Append(current, item)
        IN  IF fits_budget(name, type, One(key, Lst(candidate)), budget)
            THEN split_list_loop(cfg, name, type, key, value, budget, i + 1, out, candidate)
            ELSE
                LET closed == IF current # <<>>
                              THEN Append(out, One(key, Lst(current)))
                              ELSE out
                IN  IF fits_budget(name, type, One(key, Lst(<<item>>)), budget)
                    THEN split_list_loop(cfg, name, type, key, value, budget, i + 1,
                                         closed, <<item>>)
                    ELSE IF IsStr(item)
                    THEN LET segs == split_text(item.s, cfg.max_field_chars)
                         IN  split_list_loop(cfg, name, type, key, value, budget, i + 1,
                                 closed \o [j \in 1..Len(segs) |->
                                               One(key, Lst(<<Str(segs[j])>>))],
                                 <<>>)
                    ELSE LET truncated_item ==
                                 truncate_text(json_dumps(item), cfg.max_field_chars)
                         IN  split_list_loop(cfg, name, type, key, value, budget, i + 1,
                                 Append(closed, One(key, Lst(<<Str(truncated_item)>>))),
                                 <<>>)

split_list_item(cfg, name, type, key, value, budget) ==
    LET out == split_list_loop(cfg, name, type, key, value, budget, 1, <<>>, <<>>)
    IN  IF out # <<>> THEN out ELSE <<One(key, Lst(<<>>))>>

\* the while loop of _shrink_list_to_fit; 0 when it ends without a fitting prefix
RECURSIVE shrink_list_search(_, _, _, _, _, _)
shrink_list_search(name, type, key, value, budget, end) ==
    IF end > 1
    THEN IF fits_budget(name, type, One(key, Lst(Take(value, end))), budget)
         THEN end
         ELSE shrink_list_search(name, type, key, value, budget, Max(1, end \div 2))
    ELSE 0

shrink_list_to_fit(cfg, name, type, key, value, budget) ==
    IF value = <<>> THEN <<>>
    ELSE IF fits_budget(name, type, One(key, Lst(value)), budget) THEN value
    ELSE LET end == shrink_list_search(name, type, key, value, budget, Len(value))
         IN  IF end > 0 THEN Take(value, end)
             ELSE <<Str(truncate_text(json_dumps(value[1]), cfg.max_field_chars))>>

RECURSIVE shrink_dict_search(_, _, _, _, _, _)
shrink_dict_search(name, type, key, value, budget, end) ==
    IF end > 1
    THEN IF fits_budget(name, type, One(key, Map(Take(value, end))), budget)
         THEN end
         ELSE shrink_dict_search(name, type, key, value, budget, Max(1, end \div 2))
    ELSE 0

shrink_dict_to_fit(cfg, name, type, key, value, budget) ==
    IF value = <<>> THEN <<>>
    ELSE IF fits_budget(name, type, One(key, Map(value)), budget) THEN value
    ELSE LET end == shrink_dict_search(name, type, key, value, budget, Len(value))
         IN  IF end > 0 THEN Take(value, end)
             ELSE One(value[1][1],
                      Str(truncate_text(json_dumps(value[1][2]),
                                        cfg.max_field_chars)))

TruncatedKey == <<"_", "t", "r", "u", "n", "c", "a", "t", "e", "d">>

\* variant: every payload sealed over budget goes under the flag key
shrink_payload_to_fit_flagged(cfg, name, type, payload, budget) ==
    One(TruncatedKey,
        Str(truncate_text(json_dumps(Map(payload)), cfg.max_field_chars)))

shrink_payload_to_fit(cfg, name, type, payload, budget) ==
    IF Len(payload) # 1
    THEN One(TruncatedKey,
             Str(truncate_text(json_dumps(Map(payload)), cfg.max_field_chars)))
    ELSE LET key == payload[1][1]
             value == payload[1][2]
         IN  CASE IsStr(value) ->
                    One(key, Str(truncate_text(value.s, cfg.max_field_chars)))
               [] IsList(value) ->
                    One(key, Lst(shrink_list_to_fit(cfg, name, type, key, value.xs, budget)))
               [] IsDict(value) ->
                    One(key, Map(shrink_dict_to_fit(cfg, name, type, key, value.kv, budget)))
               [] OTHER -> payload

\* pack_loop that does not close the batch on a key it already holds
RECURSIVE pack_loop_merging(_, _, _, _, _, _, _, _)
pack_loop_merging(cfg, name, type, payloads, budget, i, out, current) ==
    IF i > Len(payloads)
    THEN IF current # <<>> THEN Append(out, current) ELSE out
    ELSE
        LET payload == payloads[i]
            candidate == DictUpdate(current, payload)
        IN  IF fits_budget(name, type, candidate, budget)
            THEN pack_loop_merging(cfg, name, type, payloads, budget, i + 1, out,
                                   candidate)
            ELSE
                LET out2 == IF current # <<>> THEN Append(out, current) ELSE out
                    sealed == IF ~fits_budget(name, type, payload, budget)
                              THEN shrink_payload_to_fit(cfg, name, type, payload, budget)
                              ELSE payload
                IN  pack_loop_merging(cfg, name, type, payloads, budget, i + 1,
                                      Append(out2, sealed), <<>>)

\* the loop of _pack_payloads from payload i on
RECURSIVE pack_loop(_, _, _, _, _, _, _, _)
pack_loop(cfg, name, type, payloads, budget, i, out, current) ==
    IF i > Len(payloads)
    THEN IF current # <<>> THEN Append(out, current) ELSE out
    ELSE
        LET payload == payloads[i]
            shared == \E j \in 1..Len(payload) : HasKey(current, payload[j][1])
            out1 == IF shared /\ current # <<>> THEN Append(out, current) ELSE out
            cur1 == IF shared /\ current # <<>> THEN <<>> ELSE current
            candidate == DictUpdate(cur1, payload)
        IN  IF fits_budget(name, type, candidate, budget)
            THEN pack_loop(cfg, name, type, payloads, budget, i + 1, out1, candidate)
            ELSE
                LET out2 == IF cur1 # <<>> THEN Append(out1, cur1) ELSE out1
                    sealed == IF ~fits_budget(name, type, payload, budget)
                              THEN shrink_payload_to_fit(cfg, name, type, payload, budget)
                              ELSE payload
                IN  pack_loop(cfg, name, type, payloads, budget, i + 1,
                              Append(out2, sealed), <<>>)

\* variant: the packer measures batches against a budget eight tokens looser
pack_payloads_loose(cfg, name, type, payloads, budget) ==
    pack_loop(cfg, name, type, payloads, budget + 8, 1, <<>>, <<>>)

pack_payloads(cfg, name, type, payloads, budget) ==
    pack_loop(cfg, name, type, payloads, budget, 1, <<>>, <<>>)

RECURSIVE expand_item(_, _, _, _, _, _)
RECURSIVE chunk_mapping_payloads(_, _, _, _, _)

expand_item(cfg, name, type, key, value, budget) ==
    IF fits_budget(name, type, One(key, value), budget) THEN <<One(key, value)>>
    ELSE CASE IsList(value) -> split_list_item(cfg, name, type, key, value.xs, budget)
           [] IsDict(value) ->
                LET subchunks == chunk_mapping_payloads(cfg, name, type, value.kv, budget)
                IN  IF subchunks = <<>> THEN <<One(key, Map(<<>>))>>
                    ELSE [i \in 1..Len(subchunks) |-> One(key, Map(subchunks[i]))]
           [] IsStr(value) ->
                LET segs == split_text(value.s, cfg.max_field_chars)
                IN  [i \in 1..Len(segs) |-> One(key, Str(segs[i]))]
           [] OTHER -> <<One(key, value)>>

chunk_mapping_payloads(cfg, name, type, mapping, budget) ==
    pack_payloads(cfg, name, type,
        Flatten([i \in 1..Len(mapping) |->
                    expand_item(cfg, name, type, mapping[i][1], mapping[i][2], budget)]),
        budget)

\* content is a mapping in every run modelled here
chunk_content(cfg, name, type, mapping, budget) ==
    chunk_mapping_payloads(cfg, name, type, mapping, budget)

----------------------------------------------------------------------------
(* json.loads and the Python conversions the Response Invoker applies *)

Null == [t |-> "null"]
Bool(b) == [t |-> "bool", b |-> b]

Digits == {"0", "1", "2", "3", "4", "5", "6", "7", "8", "9"}
DigitValue(c) == CHOOSE d \in 0..9 : DigitChar(d) = c
LowerLetters ==
    <<"a", "b", "c", "d", "e", "f", "g", "h", "i", "j", "k", "l", "m",
      "n", "o", "p", "q", "r", "s", "t", "u", "v", "w", "x", "y", "z">>
UpperLetters ==
    <<"A", "B", "C", "D", "E", "F", "G", "H", "I", "J", "K", "L", "M",
      "N", "O", "P", "Q", "R", "S", "T", "U", "V", "W", "X", "Y", "Z">>
IsUpper(c) == \E i \in 1..Len(UpperLetters) : UpperLetters[i] = c
IsLower(c) == \E i \in 1..Len(LowerLetters) : LowerLetters[i] = c
LowerChar(c) ==
    IF IsUpper(c)
    THEN LowerLetters[CHOOSE i \in 1..Len(UpperLetters) : UpperLetters[i] = c]
    ELSE c
lower(s) == [i \in 1..Len(s) |-> LowerChar(s[i])]
\* [A-Za-z0-9]
IsAlnum(c) == IsUpper(c) \/ IsLower(c) \/ c \in Digits

\* the positions at which sub occurs in s
Occurrences(s, sub) ==
    {p \in 1..(Len(s) - Len(sub) + 1) : SubSeq(s, p, p + Len(sub) - 1) = sub}
\* text.find(sub) + 1; 0 when absent
Find(s, sub) == IF Occurrences(s, sub) = {} THEN 0 ELSE MinOf(Occurrences(s, sub))
\* text.rfind(sub) + 1; 0 when absent
RFind(s, sub) == IF Occurrences(s, sub) = {} THEN 0 ELSE MaxOf(Occurrences(s, sub))

\* text.strip(c) for one character c
strip_chars(s, c) ==
    LET keep == {i \in 1..Len(s) : s[i] # c}
    IN  IF keep = {} THEN <<>> ELSE SubSeq(s, MinOf(keep), MaxOf(keep))

\* str.splitlines(): breaks at \n, \r and \r\n; no empty last line
RECURSIVE splitlines(_)
splitlines(s) ==
    LET breaks == {i \in 1..Len(s) : s[i] \in {"\n", "\r"}}
    IN  IF s = <<>> THEN <<>>
        ELSE IF breaks = {} THEN <<s>>
        ELSE LET b == MinOf(breaks)
                 n == IF s[b] = "\r" /\ b < Len(s) /\ s[b + 1] = "\n" THEN b + 1 ELSE b
             IN  <<SubSeq(s, 1, b - 1)>> \o splitlines(SubSeq(s, n + 1, Len(s)))

Fail == [ok |-> FALSE, v |-> Null, p |-> 0]
Ok(v, p) == [ok |-> TRUE, v |-> v, p |-> p]

\* the first position from p on that holds no JSON whitespace
skip_ws(s, p) ==
    MinOf({q \in p..(Len(s) + 1) :
              q = Len(s) + 1 \/ s[q] \notin {" ", "\n", "\r", "\t"}})

\* inside a string literal that starts at p: whether position i follows an odd
\* run of backslashes, i.e. is the character an escape applies to
Escaped(s, p, i) ==
    LET before == {j \in (p - 1)..(i - 1) : j = p - 1 \/ s[j] # "\\"}
    IN  (i - 1 - MaxOf(before)) % 2 = 1

Unescape(c) ==
    CASE c = "n" -> "\n"
      [] c = "r" -> "\r"
      [] c = "t" -> "\t"
      [] OTHER -> c

\* the text of a string literal whose first character is at p, the opening
\* quote already read; a raw control character, an unknown escape or a
\* missing closing quote is an error (strict mode)
scan_string(s, p) ==
    LET closing == {q \in p..Len(s) : s[q] = "\"" /\ ~Escaped(s, p, q)}
    IN  IF closing = {} THEN Fail
        ELSE
            LET q == MinOf(closing)
                starts(i) == s[i] = "\\" /\ ~Escaped(s, p, i)
                bad(i) == \/ (~Escaped(s, p, i) /\ s[i] \in {"\n", "\r", "\t"})
                          \/ (Escaped(s, p, i)
                                /\ s[i] \notin {"\"", "\\", "/", "n", "r", "t"})
                kept == SelectSeq([i \in 1..(q - p) |-> p + i - 1],
                                  LAMBDA i : ~starts(i))
            IN  IF \E i \in p..(q - 1) : bad(i) THEN Fail
                ELSE Ok([k \in 1..Len(kept) |->
                            IF Escaped(s, p, kept[k]) THEN Unescape(s[kept[k]])
                            ELSE s[kept[k]]],
                        q + 1)

RECURSIVE scan_digits(_, _, _)
scan_digits(s, p, n) ==
    IF p <= Len(s) /\ s[p] \in Digits
    THEN scan_digits(s, p + 1, 10 * n + DigitValue(s[p]))
    ELSE Ok(n, p)

\* an integer: 0, or a non-zero digit followed by digits, with an optional sign
scan_number(s, p) ==
    LET q == IF s[p] = "-" THEN p + 1 ELSE p
        sign == IF s[p] = "-" THEN -1 ELSE 1
    IN  IF q > Len(s) \/ s[q] \notin Digits THEN Fail
        ELSE IF s[q] = "0" THEN Ok(Num(0), q + 1)
        ELSE LET r == scan_digits(s, q, 0) IN Ok(Num(sign * r.v), r.p)

RECURSIVE parse_value(_, _)
RECURSIVE parse_items(_, _, _)
RECURSIVE parse_members(_, _, _)

\* the items of an array from p on, s[p] being the start of an item
parse_items(s, p, acc) ==
    LET r == parse_value(s, p)
        q == skip_ws(s, r.p)
    IN  IF ~r.ok \/ q > Len(s) THEN Fail
        ELSE IF s[q] = "]" THEN Ok(Lst(Append(acc, r.v)), q + 1)
        ELSE IF s[q] = "," THEN parse_items(s, skip_ws(s, q + 1), Append(acc, r.v))
        ELSE Fail

\* the members of an object from p on, s[p] being the start of a key
parse_members(s, p, acc) ==
    IF p > Len(s) \/ s[p] # "\"" THEN Fail
    ELSE
        LET k == scan_string(s, p + 1)
            c == skip_ws(s, k.p)
        IN  IF ~k.ok \/ c > Len(s) \/ s[c] # ":" THEN Fail
            ELSE
                LET r == parse_value(s, skip_ws(s, c + 1))
                    q == skip_ws(s, r.p)
                IN  IF ~r.ok \/ q > Len(s) THEN Fail
                    ELSE IF s[q] = "}" THEN Ok(Map(DictSet(acc, k.v, r.v)), q + 1)
                    ELSE IF s[q] = ","
                    THEN parse_members(s, skip_ws(s, q + 1), DictSet(acc, k.v, r.v))
                    ELSE Fail

parse_value(s, p) ==
    IF p > Len(s) THEN Fail
    ELSE CASE s[p] = "{" ->
                LET q == skip_ws(s, p + 1)
                IN  IF q <= Len(s) /\ s[q] = "}" THEN Ok(Map(<<>>), q + 1)
                    ELSE parse_members(s, q, <<>>)
           [] s[p] = "[" ->
                LET q == skip_ws(s, p + 1)
                IN  IF q <= Len(s) /\ s[q] = "]" THEN Ok(Lst(<<>>), q + 1)
                    ELSE parse_items(s, q, <<>>)
           [] s[p] = "\"" ->
                LET r == scan_string(s, p + 1)
                IN  IF r.ok THEN Ok(Str(r.v), r.p) ELSE Fail
           [] s[p] \in Digits \cup {"-"} -> scan_number(s, p)
           [] StartsWith(Drop(s, p - 1), <<"n", "u", "l", "l">>) -> Ok(Null, p + 4)
           [] StartsWith(Drop(s, p - 1), <<"t", "r", "u", "e">>) -> Ok(Bool(TRUE), p + 4)
           [] StartsWith(Drop(s, p - 1), <<"f", "a", "l", "s", "e">>) ->
                Ok(Bool(FALSE), p + 5)
           [] OTHER -> Fail

\* json.loads(text): [ok |-> FALSE] stands for JSONDecodeError
json_loads(s) ==
    LET r == parse_value(s, skip_ws(s, 1))
    IN  IF r.ok /\ skip_ws(s, r.p) = Len(s) + 1
        THEN [ok |-> TRUE, v |-> r.v]
        ELSE [ok |-> FALSE, v |-> Null]

\* repr(s) of a str
ReprEscape(c, quote) ==
    CASE c = "\\" -> <<"\\", "\\">>
      [] c = "\n" -> <<"\\", "n">>
      [] c = "\r" -> <<"\\", "r">>
      [] c = "\t" -> <<"\\", "t">>
      [] c = quote -> <<"\\", c>>
      [] OTHER -> <<c>>

py_repr_str(s) ==
    LET has(c) == \E i \in 1..Len(s) : s[i] = c
        quote == IF has("'") /\ ~has("\"") THEN "\"" ELSE "'"
    IN  <<quote>> \o Flatten([i \in 1..Len(s) |-> ReprEscape(s[i], quote)]) \o <<quote>>

RECURSIVE py_repr(_)
py_repr(v) ==
    CASE v.t = "num" -> IntText(v.n)
      [] v.t = "str" -> py_repr_str(v.s)
      [] v.t = "null" -> <<"N", "o", "n", "e">>
      [] v.t = "bool" -> IF v.b THEN <<"T", "r", "u", "e">>
                         ELSE <<"F", "a", "l", "s", "e">>
      [] v.t = "list" ->
            <<"[">> \o JoinText([i \in 1..Len(v.xs) |-> py_repr(v.xs[i])],
                                <<",", " ">>) \o <<"]">>
      [] v.t = "dict" ->
            <<"{">> \o JoinText([i \in 1..Len(v.kv) |->
                                    py_repr_str(v.kv[i][1]) \o <<":", " ">>
                                        \o py_repr(v.kv[i][2])],
                                <<",", " ">>) \o <<"}">>

\* str(v)
py_str(v) == IF v.t = "str" THEN v.s ELSE py_repr(v)

\* not v
Falsy(v) ==
    CASE v.t = "null" -> TRUE
      [] v.t = "bool" -> ~v.b
      [] v.t = "num" -> v.n = 0
      [] v.t = "str" -> v.s = <<>>
      [] v.t = "list" -> v.xs = <<>>
      [] v.t = "dict" -> v.kv = <<>>

\* d.get(key, default)
DictGet(kv, k, default) ==
    IF HasKey(kv, k) THEN kv[CHOOSE i \in 1..Len(kv) : kv[i][1] = k][2] ELSE default

FilterNonEmpty(ss) == SelectSeq(ss, LAMBDA x : x # <<>>)

----------------------------------------------------------------------------
(* Response Invoker *)

\* re.sub(r"^[^A-Za-z0-9]+", "", line)
strip_leading_glyphs(line) ==
    LET alnum == {i \in 1..Len(line) : IsAlnum(line[i])}
    IN  IF alnum = {} THEN <<>> ELSE SubSeq(line, MinOf(alnum), Len(line))

normalize_list(value) ==
    IF Falsy(value) THEN <<>>
    ELSE CASE IsList(value) ->
                FilterNonEmpty([i \in 1..Len(value.xs) |-> strip(py_str(value.xs[i]))])
           [] IsStr(value) ->
                LET lines == splitlines(value.s)
                IN  FilterNonEmpty([i \in 1..Len(lines) |->
                                       strip(strip_leading_glyphs(lines[i]))])
           [] OTHER -> <<strip(py_str(value))>>

SummaryOf == <<"S", "u", "m", "m", "a", "r", "y", " ", "o", "f", " ">>
ThisSectionCovers ==
    <<"T", "h", "i", "s", " ", "s", "e", "c", "t", "i", "o", "n", " ",
      "c", "o", "v", "e", "r", "s", " ">>

FallbackDescription(name) == ThisSectionCovers \o name \o <<".">>
FallbackSummary(name) == SummaryOf \o name \o <<".">>

\* the record returned when the collaborator raises, and by merge([])
FallbackRecord(name) ==
    [description |-> FallbackDescription(name), bullets |-> <<>>,
     findings |-> <<>>, summary |-> FallbackSummary(name)]

\* text.split(separator)[0]
BeforeFirst(text, separator) == SubSeq(text, 1, Find(text, separator) - 1)

summary_from_text(text, fallback_name) ==
    IF text = <<>> THEN FallbackSummary(fallback_name)
    ELSE IF Find(text, <<".", " ">>) > 0
    THEN strip(BeforeFirst(text, <<".", " ">>)) \o <<".">>
    ELSE IF Find(text, <<".", "\n">>) > 0
    THEN strip(BeforeFirst(text, <<".", "\n">>)) \o <<".">>
    ELSE LET first == Head(splitlines(strip(text)))
         IN  strip(IF first # <<>> THEN first ELSE FallbackSummary(fallback_name))

\* variant: a raw newline inside a literal dropped, like the carriage return
repair_step_newline_dropped(c, in_string, escape) ==
    IF in_string
    THEN IF escape THEN [out |-> <<c>>, in_string |-> TRUE, escape |-> FALSE]
         ELSE IF c = "\\" THEN [out |-> <<c>>, in_string |-> TRUE, escape |-> TRUE]
         ELSE IF c = "\"" THEN [out |-> <<c>>, in_string |-> FALSE, escape |-> FALSE]
         ELSE IF c \in {"\n", "\r"}
         THEN [out |-> <<>>, in_string |-> TRUE, escape |-> FALSE]
         ELSE IF c = "\t"
         THEN [out |-> <<"\\", "t">>, in_string |-> TRUE, escape |-> FALSE]
         ELSE [out |-> <<c>>, in_string |-> TRUE, escape |-> FALSE]
    ELSE [out |-> <<c>>, in_string |-> (c = "\""), escape |-> escape]

\* one pass of the loop body of _repair_json_string on character c
repair_step(c, in_string, escape) ==
    IF in_string
    THEN IF escape THEN [out |-> <<c>>, in_string |-> TRUE, escape |-> FALSE]
         ELSE IF c = "\\" THEN [out |-> <<c>>, in_string |-> TRUE, escape |-> TRUE]
         ELSE IF c = "\"" THEN [out |-> <<c>>, in_string |-> FALSE, escape |-> FALSE]
         ELSE IF c = "\n"
         THEN [out |-> <<"\\", "n">>, in_string |-> TRUE, escape |-> FALSE]
         ELSE IF c = "\r" THEN [out |-> <<>>, in_string |-> TRUE, escape |-> FALSE]
         ELSE IF c = "\t"
         THEN [out |-> <<"\\", "t">>, in_string |-> TRUE, escape |-> FALSE]
         ELSE [out |-> <<c>>, in_string |-> TRUE, escape |-> FALSE]
    ELSE [out |-> <<c>>, in_string |-> (c = "\""), escape |-> escape]

\* the loop of _repair_json_string over text[lo..hi], entered with the given
\* flags: the first half, then the second half from the flags the first left
RECURSIVE repair_range(_, _, _, _, _)
repair_range(text, lo, hi, in_string, escape) ==
    IF lo > hi THEN [out |-> <<>>, in_string |-> in_string, escape |-> escape]
    ELSE IF lo = hi THEN repair_step(text[lo], in_string, escape)
    ELSE LET mid == (lo + hi) \div 2
             left == repair_range(text, lo, mid, in_string, escape)
             right == repair_range(text, mid + 1, hi, left.in_string, left.escape)
         IN  [out |-> left.out \o right.out,
              in_string |-> right.in_string, escape |-> right.escape]

repair_json_string(text) == repair_range(text, 1, Len(text), FALSE, FALSE).out

\* the mapping _parse_json_response returns; the empty mapping for "no object"
\* cleaned[4:].strip() when the fence carries the word json
drop_json_tag(inner) ==
    IF StartsWith(lower(inner), <<"j", "s", "o", "n">>) THEN strip(Drop(inner, 4))
    ELSE inner

unfence(stripped) ==
    IF StartsWith(stripped, <<Backtick, Backtick, Backtick>>)
    THEN drop_json_tag(strip(strip_chars(stripped, Backtick)))
    ELSE stripped

brace_span(cleaned, start, end) ==
    IF start # 0 /\ end # 0 /\ end > start THEN SubSeq(cleaned, start, end)
    ELSE cleaned

outer_object(cleaned) ==
    brace_span(cleaned, Find(cleaned, <<"{">>), RFind(cleaned, <<"}">>))

\* parsed if isinstance(parsed, dict) else {}
mapping_of(loaded) == IF IsDict(loaded.v) THEN loaded.v.kv ELSE <<>>

parse_repaired(reparsed) == IF reparsed.ok THEN mapping_of(reparsed) ELSE <<>>

parse_loaded(parsed, cleaned) ==
    IF parsed.ok THEN mapping_of(parsed)
    ELSE parse_repaired(json_loads(repair_json_string(cleaned)))

parse_cleaned(cleaned) == parse_loaded(json_loads(cleaned), cleaned)

parse_json_response(response) ==
    IF response = <<>> THEN <<>>
    ELSE parse_cleaned(outer_object(unfence(strip(response))))

DescriptionKey == <<"d", "e", "s", "c", "r", "i", "p", "t", "i", "o", "n">>
BulletsKey == <<"b", "u", "l", "l", "e", "t", "s">>
FindingsKey == <<"f", "i", "n", "d", "i", "n", "g", "s">>
SummaryKey == <<"s", "u", "m", "m", "a", "r", "y">>

\* a reply of the generation collaborator: it raised, or returned a text
Raised == [raised |-> TRUE, text |-> <<>>]
Reply(text) == [raised |-> FALSE, text |-> text]

\* variant: the left operand whether empty or not
OrElse_left(text, fallback) == text

\* Python "text or fallback"
OrElse(text, fallback) == IF text # <<>> THEN text ELSE fallback

\* lines 305-311: the reply holds no object
unparsed_record(description, name) ==
    [description |-> description, bullets |-> <<>>, findings |-> <<>>,
     summary |-> summary_from_text(description, name)]

\* lines 313-328: the reply holds an object
parsed_record(description, bullets, findings, summary, name) ==
    [description |-> description, bullets |-> bullets, findings |-> findings,
     summary |-> IF summary = <<>> THEN summary_from_text(description, name)
                 ELSE summary]

record_of(parsed, response, name) ==
    IF parsed = <<>>
    THEN unparsed_record(OrElse(strip(response), FallbackDescription(name)), name)
    ELSE parsed_record(
            OrElse(strip(py_str(DictGet(parsed, DescriptionKey, Str(<<>>)))),
                   FallbackDescription(name)),
            normalize_list(DictGet(parsed, BulletsKey, Null)),
            normalize_list(DictGet(parsed, FindingsKey, Null)),
            strip(py_str(DictGet(parsed, SummaryKey, Str(<<>>)))),
            name)

\* variant: a raised call handled as an empty reply
invoke_structured_response_unguarded(reply, name) ==
    record_of(parse_json_response(reply.text), reply.text, name)

\* the record _invoke_structured_response returns for the reply of the collaborator
invoke_structured_response(reply, name) ==
    IF reply.raised THEN FallbackRecord(name)
    ELSE record_of(parse_json_response(reply.text), reply.text, name)

----------------------------------------------------------------------------
(* Digests, digest batches and merge batches *)

DigestSummaryChars == 500
DigestItemChars == 300
DigestMaxBullets == 7
DigestMaxFindings == 5
MergeFitSummaryChars == 400
ChunkDigestDepth == 2
ChunkDigestSampleKeys == 5
ChunkDigestSampleItems == 3
ChunkDigestTextChars == 300

Texts(ss) == [i \in 1..Len(ss) |-> Str(ss[i])]

\* the digest of a record: a mapping with the keys summary, bullets, findings
digest_structured_output(output) ==
    <<  <<SummaryKey, Str(truncate_text(strip(output.summary), DigestSummaryChars))>>,
        <<BulletsKey,
          Lst(Take(Texts([i \in 1..Len(output.bullets) |->
                            truncate_text(strip(output.bullets[i]), DigestItemChars)]),
                   DigestMaxBullets))>>,
        <<FindingsKey,
          Lst(Take(Texts([i \in 1..Len(output.findings) |->
                            truncate_text(strip(output.findings[i]), DigestItemChars)]),
                   DigestMaxFindings))>>  >>

AsMaps(ds) == Lst([i \in 1..Len(ds) |-> Map(ds[i])])

\* len(_merge_prompt(section_name, section_type, digests))
merge_prompt(name, type, ds) ==
    MergeTemplateLen + SpecLen(response_spec(FALSE)) + Len(name)
        + json_indent_len(AsMaps(ds), 0)

merge_tokens(name, type, ds) ==
    estimate_prompt_tokens(merge_prompt(name, type, ds), SystemPromptLen)

\* len(_digest_prompt(section_name, section_type, digests, response_spec))
digest_prompt(name, type, ds, spec) ==
    DigestTemplateLen + SpecLen(spec) + Len(name) + json_indent_len(AsMaps(ds), 0)

digest_tokens(name, type, ds, spec) ==
    estimate_prompt_tokens(digest_prompt(name, type, ds, spec), SystemPromptLen)

ensure_merge_fit(cfg, name, type, digest) ==
    IF merge_tokens(name, type, <<digest>>) <= cfg.merge_budget THEN digest
    ELSE One(SummaryKey,
             Str(truncate_text(strip(py_str(DictGet(digest, SummaryKey, Str(<<>>)))),
                               MergeFitSummaryChars)))

\* the loop of _batch_digests from digest i on
RECURSIVE batch_digests_loop(_, _, _, _, _, _, _)
batch_digests_loop(cfg, name, type, ds, i, out, current) ==
    IF i > Len(ds)
    THEN IF current # <<>> THEN Append(out, current) ELSE out
    ELSE
        LET digest == ensure_merge_fit(cfg, name, type, ds[i])
            candidate == Append(current, digest)
        IN  IF merge_tokens(name, type, candidate) <= cfg.merge_budget
            THEN batch_digests_loop(cfg, name, type, ds, i + 1, out, candidate)
            ELSE batch_digests_loop(cfg, name, type, ds, i + 1,
                    IF current # <<>> THEN Append(out, current) ELSE out,
                    <<digest>>)

\* variant: the first digest of the round is left out of the batches
batch_digests_first_lost(cfg, name, type, ds) ==
    batch_digests_loop(cfg, name, type, Tail(ds), 1, <<>>, <<>>)

batch_digests(cfg, name, type, ds) ==
    batch_digests_loop(cfg, name, type, ds, 1, <<>>, <<>>)

TypeKey == <<"t", "y", "p", "e">>
KeyCountKey == <<"k", "e", "y", "_", "c", "o", "u", "n", "t">>
SampleKeysKey == <<"s", "a", "m", "p", "l", "e", "_", "k", "e", "y", "s">>
SampleKey == <<"s", "a", "m", "p", "l", "e">>
LengthKey == <<"l", "e", "n", "g", "t", "h">>

RECURSIVE summarize_value(_, _)
summarize_value(value, max_depth) ==
    IF max_depth <= 0
    THEN Str(truncate_text(json_dumps(value), ChunkDigestTextChars))
    ELSE CASE IsDict(value) ->
                LET sample == Take(value.kv, ChunkDigestSampleKeys)
                IN  Map(<<  <<TypeKey, Str(<<"d", "i", "c", "t">>)>>,
                            <<KeyCountKey, Num(Len(value.kv))>>,
                            <<SampleKeysKey, Lst(Texts(Keys(sample)))>>,
                            <<SampleKey,
                              Map([i \in 1..Len(sample) |->
                                      <<sample[i][1],
                                        summarize_value(sample[i][2], max_depth - 1)>>])>>
                        >>)
           [] IsList(value) ->
                LET sample == Take(value.xs, ChunkDigestSampleItems)
                IN  Map(<<  <<TypeKey, Str(<<"l", "i", "s", "t">>)>>,
                            <<LengthKey, Num(Len(value.xs))>>,
                            <<SampleKey,
                              Lst([i \in 1..Len(sample) |->
                                      summarize_value(sample[i], max_depth - 1)])>>
                        >>)
           [] IsStr(value) -> Str(truncate_text(value.s, ChunkDigestTextChars))
           [] OTHER -> value

build_chunk_digest(chunk) ==
    [i \in 1..Len(chunk) |->
        <<chunk[i][1], summarize_value(chunk[i][2], ChunkDigestDepth)>>]

\* the loop of _batch_chunk_digests from digest i on
RECURSIVE batch_chunk_digests_loop(_, _, _, _, _, _, _, _)
batch_chunk_digests_loop(cfg, name, type, ds, spec, i, out, current) ==
    IF i > Len(ds)
    THEN IF current # <<>> THEN Append(out, current) ELSE out
    ELSE
        LET candidate == Append(current, ds[i])
        IN  IF digest_tokens(name, type, candidate, spec) <= cfg.digest_budget
            THEN batch_chunk_digests_loop(cfg, name, type, ds, spec, i + 1, out,
                                          candidate)
            ELSE batch_chunk_digests_loop(cfg, name, type, ds, spec, i + 1,
                    IF current # <<>> THEN Append(out, current) ELSE out,
                    <<ds[i]>>)

batch_chunk_digests(cfg, name, type, ds, spec) ==
    batch_chunk_digests_loop(cfg, name, type, ds, spec, 1, <<>>, <<>>)


----------------------------------------------------------------------------
(* The inputs explored *)

MaxRecords == 3      \* most records handed to _merge_structured_outputs directly
MaxMergeLog == 2     \* merge prompts kept in the log "sent"; later ones are not logged

Names == << <<"Q", "3">>, <<"S", "a", "l", "e", "s">> >>
Types == {"analytics", "descriptive"}

FullReplyText ==
    <<"{", "\"", "d", "e", "s", "c", "r", "i", "p", "t", "i", "o", "n", "\"",
      ":", " ", "\"", "U", "p", ".", " ", "D", "o", "w", "n", ".", "\"", ",",
      " ", "\"", "b", "u", "l", "l", "e", "t", "s", "\"", ":", " ", "[",
      "\"", "n", "o", "r", "t", "h", " ", "g", "r", "e", "w", "\"", ",", " ",
      "\"", "s", "o", "u", "t", "h", " ", "f", "e", "l", "l", "\"", ",", " ",
      "\"", "e", "a", "s", "t", " ", "f", "l", "a", "t", "\"", "]", ",", " ",
      "\"", "f", "i", "n", "d", "i", "n", "g", "s", "\"", ":", " ", "[",
      "\"", "r", "i", "s", "k", " ", "i", "n", " ", "s", "o", "u", "t", "h",
      "\"", "]", ",", " ", "\"", "s", "u", "m", "m", "a", "r", "y", "\"",
      ":", " ", "\"", "M", "i", "x", "e", "d", " ", "q", "u", "a", "r", "t",
      "e", "r", " ", "o", "v", "e", "r", "a", "l", "l", ".", "\"", "}">>

PartialReplyText ==
    <<"{", "\"", "d", "e", "s", "c", "r", "i", "p", "t", "i", "o", "n", "\"",
      ":", " ", "\"", "\"", ",", " ", "\"", "b", "u", "l", "l", "e", "t",
      "s", "\"", ":", " ", "n", "u", "l", "l", "}">>

NonObjectReplyText == <<"[", "1", "]">>

ProseReplyText == <<"N", "o", " ", "d", "a", "t", "a">>

\* what the generation collaborator may do on a call
Replies ==
    <<Raised, Reply(FullReplyText), Reply(ProseReplyText), Reply(PartialReplyText),
      Reply(NonObjectReplyText), Reply(<<>>)>>

\* the replies, by position, whose records a direct call of the merge is handed
InitReplies == {1, 2, 3}

Payloads ==
    <<
        <<>>,
        <<<<<<"a">>, Num(1)>>>>,
        <<<<<<"a">>, Lst(<<Num(1), Num(2), Num(3), Num(4)>>)>>, <<<<"b">>,
          Str(<<"h", "e", "l", "l", "o", " ", "w", "o", "r", "l", "d">>)>>>>,
        <<<<<<"a">>, Map(<<<<<<"x">>, Num(1)>>, <<<<"y">>, Lst(<<Num(1),
          Num(2)>>)>>>>)>>, <<<<"b">>, Lst(<<Map(<<<<<<"k">>, Num(1)>>>>),
          Str(<<"t", "e", "x", "t">>)>>)>>, <<<<"c">>, Num(5)>>>>
    >>

\* the values a Payload key may hold when _chunk_content is called directly
ValuePool ==
    <<
        Num(7),
        Str(<<"h", "e", "l", "l", "o", " ", "w", "o">>),
        Str(<<>>),
        Lst(<<>>),
        Lst(<<Num(1), Num(22), Num(333)>>),
        Lst(<<Str(<<"a", " ", "b", " ", " ", "c", " ", "d", " ", "e", " ",
          "f">>), Map(<<<<<<"k">>, Lst(<<Num(1), Num(2)>>)>>>>), Num(5)>>),
        Map(<<>>),
        Map(<<<<<<"x">>, Num(1)>>, <<<<"y">>, Str(<<"a", "b">>)>>>>),
        Map(<<<<<<"p">>, Map(<<<<<<"q">>, Lst(<<Num(1), Num(2)>>)>>,
          <<<<"r">>, Str(<<"l", "o", "n", "g", " ", "t", "e", "x",
          "t">>)>>>>)>>, <<<<"s">>, Lst(<<Lst(<<Num(1), Num(2),
          Num(3)>>)>>)>>>>)
    >>

ChunkKeys == << <<"a">>, <<"b">> >>

Config(i, c, m, g, d, f) ==
    [input_budget |-> i, chunk_budget |-> c, max_chunk_calls |-> m,
     merge_budget |-> g, digest_budget |-> d, max_field_chars |-> f]

ChunkBudgets == {158, 165}
ChunkCallCeilings == {1, 3}
MergeBudgets == {187, 220, 8000}
DigestBudgets == {260, 8000}
SplitBudgets == {146, 150, 153, 158, 163, 170}
FieldChars == {5, 8000}

\* the configurations of a whole run: the Payload fits; it is split and every merge
\* fits one prompt; it is split and the merge budget is tight
Configs ==
    {Config(8000, 165, 3, 8000, 8000, 8000)}
        \cup {Config(100, c, m, 8000, d, 8000) :
                 c \in ChunkBudgets, m \in ChunkCallCeilings, d \in DigestBudgets}
        \cup {Config(100, 158, 2, g, 8000, 8000) : g \in MergeBudgets}


----------------------------------------------------------------------------
(* _generate_structured_content and _merge_structured_outputs, step by step. *)
(* A step ends where the generation collaborator is called: its reply is    *)
(* the input of the next step.                                              *)

\* no call of _invoke_structured_response is under way
InvokerIdle == response_text = <<>> /\ parsed_reply = <<>>

TableIdle ==
    /\ table_batches = <<>>
    /\ table_parsed = <<>>
    /\ table_at = [batch |-> 0, key |-> 0]
    /\ summaries = <<>>
    /\ rewrite_count = 0
    /\ call_count = 0

\* the fields create_initial_state sets, for the empty input
AnalyserIdle ==
    /\ raw_input = Map(<<>>)
    /\ client_name = Null
    /\ is_valid = FALSE
    /\ validation_errors = <<>>
    /\ sections_identified = <<>>
    /\ has_analytics = FALSE
    /\ has_descriptive = FALSE

EstimatorIdle == est_prompt_len = 0 /\ est_system_len = 0 /\ est_tokens = 0

GraphIdle == node = "idle" /\ visited = <<>> /\ error = Null

BesideWriterIdle ==
    InvokerIdle /\ TableIdle /\ AnalyserIdle /\ EstimatorIdle /\ GraphIdle

NoResult == [none |-> TRUE]

\* an entry of the log "sent": the prompt of one call and what the collaborator did
Call(kind, index, tokens, reply) ==
    [kind |-> kind, index |-> index, tokens |-> tokens, raised |-> reply.raised]

MergeCalls(log) == Cardinality({i \in 1..Len(log) : log[i].kind = "merge"})

Logged(log, call) ==
    IF call.kind = "merge" /\ MergeCalls(log) >= MaxMergeLog THEN log
    ELSE Append(log, call)

\* the prompt sizes of the calls, as _estimate_prompt_tokens measures them
detail_tokens(name, type, mapping) ==
    estimate_prompt_tokens(
        structured_prompt(name, json_indent_len(Map(mapping), 0), type,
                          response_spec(TRUE)),
        SystemPromptLen)

WithParts(merged, parts) ==
    [description |-> merged.description, bullets |-> merged.bullets,
     findings |-> merged.findings, summary |-> merged.summary, parts |-> parts]

\* the record of a call, tabulated once over the replies and section names explored
ReplyRecords ==
    [n \in 1..Len(Names) |->
        [r \in 1..Len(Replies) |-> invoke_structured_response(Replies[r], Names[n])]]

Respond(r, name) ==
    ReplyRecords[CHOOSE n \in 1..Len(Names) : Names[n] = name][r]

DigestsOf(outputs) == [i \in 1..Len(outputs) |-> digest_structured_output(outputs[i])]

\* variant: the whole Payload measured against the chunk budget
fits_input_chunk_budget(cfg, name, type, mapping) ==
    fits_tokens(name, type, mapping) <= cfg.chunk_budget

\* line 96: the whole Payload fits the input budget
fits_input(cfg, name, type, mapping) ==
    fits_tokens(name, type, mapping) <= cfg.input_budget

\* variant: the ceiling itself already counts as exceeded
over_ceiling_inclusive(cfg, n) == n >= cfg.max_chunk_calls

\* line 131: more chunks than the call ceiling allows
over_ceiling(cfg, n) == n > cfg.max_chunk_calls

Init ==
    /\ config \in Configs
    /\ section_name \in {Names[n] : n \in 1..Len(Names)}
    /\ section_type \in Types
    /\ content \in {Payloads[p] : p \in 1..Len(Payloads)}
    /\ pc = "start"
    /\ chunks = <<>>
    /\ digest_batches = <<>>
    /\ chunk_outputs = <<>>
    /\ digests = <<>>
    /\ batches = <<>>
    /\ merged_outputs = <<>>
    /\ result = NoResult
    /\ sent = <<>>
    /\ round_in = 0
    /\ BesideWriterIdle

\* what the Payload would hold had the fragments been cut out of its own lists,
\* mappings and texts: each key keeps its last fragment
RECURSIVE LastFragments(_, _)
LastFragments(mapping, cs) ==
    IF cs = <<>> THEN mapping
    ELSE LastFragments(DictUpdate(mapping, Head(cs)), Tail(cs))

\* variant: the split works on the Payload's own containers
Generate_in_place ==
    /\ pc = "start"
    /\ IF fits_input(config, section_name, section_type, content)
       THEN /\ pc' = "whole"
            /\ UNCHANGED <<content, chunks, digest_batches, result>>
       ELSE LET cs == chunk_content(config, section_name, section_type, content,
                                    config.chunk_budget)
            IN  /\ chunks' = cs
                /\ content' = LastFragments(content, cs)
                /\ IF cs = <<>>
                   THEN /\ result' = FallbackRecord(section_name)
                        /\ pc' = "done"
                        /\ UNCHANGED digest_batches
                   ELSE IF over_ceiling(config, Len(cs))
                   THEN /\ digest_batches' =
                              batch_chunk_digests(config, section_name, section_type,
                                  [i \in 1..Len(cs) |-> build_chunk_digest(cs[i])],
                                  response_spec(TRUE))
                        /\ pc' = "digest"
                        /\ UNCHANGED result
                   ELSE /\ pc' = "chunks"
                        /\ UNCHANGED <<digest_batches, result>>
    /\ UNCHANGED beside_writer
    /\ UNCHANGED <<config, section_name, section_type, chunk_outputs,
                   digests, batches, merged_outputs, sent, round_in>>

\* lines 86-148: the fit check, the split and the choice of path
Generate ==
    /\ pc = "start"
    /\ IF fits_input(config, section_name, section_type, content)
       THEN /\ pc' = "whole"
            /\ UNCHANGED <<chunks, digest_batches, result>>
       ELSE LET cs == chunk_content(config, section_name, section_type, content,
                                    config.chunk_budget)
            IN  /\ chunks' = cs
                /\ IF cs = <<>>
                   THEN /\ result' = FallbackRecord(section_name)
                        /\ pc' = "done"
                        /\ UNCHANGED digest_batches
                   ELSE IF over_ceiling(config, Len(cs))
                   THEN /\ digest_batches' =
                              batch_chunk_digests(config, section_name, section_type,
                                  [i \in 1..Len(cs) |-> build_chunk_digest(cs[i])],
                                  response_spec(TRUE))
                        /\ pc' = "digest"
                        /\ UNCHANGED result
                   ELSE /\ pc' = "chunks"
                        /\ UNCHANGED <<digest_batches, result>>
    /\ UNCHANGED beside_writer
    /\ UNCHANGED <<config, section_name, section_type, content, chunk_outputs,
                   digests, batches, merged_outputs, sent, round_in>>

\* lines 97-102: the single call with the whole Payload
InvokeWhole ==
    /\ pc = "whole"
    /\ \E r \in 1..Len(Replies) :
        /\ result' = Respond(r, section_name)
        /\ sent' = Logged(sent, Call("whole", 1,
                        fits_tokens(section_name, section_type, content), Replies[r]))
    /\ pc' = "done"
    /\ UNCHANGED beside_writer
    /\ UNCHANGED <<config, section_name, section_type, content, chunks,
                   digest_batches, chunk_outputs, digests, batches, merged_outputs,
                   round_in>>

\* lines 173-194: one pass of the per-chunk loop
InvokeChunk ==
    /\ pc = "chunks"
    /\ LET idx == Len(chunk_outputs) + 1
       IN  /\ \E r \in 1..Len(Replies) :
                /\ chunk_outputs' = Append(chunk_outputs,
                        Respond(r, section_name))
                /\ sent' = Logged(sent, Call("chunk", idx,
                        detail_tokens(section_name, section_type, chunks[idx]),
                        Replies[r]))
           /\ pc' = IF idx = Len(chunks) THEN "merge" ELSE "chunks"
    /\ UNCHANGED beside_writer
    /\ UNCHANGED <<config, section_name, section_type, content, chunks,
                   digest_batches, digests, batches, merged_outputs, result, round_in>>

\* lines 150-170: one pass of the digest-batch loop
InvokeDigest ==
    /\ pc = "digest"
    /\ LET idx == Len(chunk_outputs) + 1
       IN  /\ \E r \in 1..Len(Replies) :
                /\ chunk_outputs' = Append(chunk_outputs,
                        Respond(r, section_name))
                /\ sent' = Logged(sent, Call("digest", idx,
                        digest_tokens(section_name, section_type, digest_batches[idx],
                                      response_spec(TRUE)),
                        Replies[r]))
           /\ pc' = IF idx = Len(digest_batches) THEN "merge" ELSE "digest"
    /\ UNCHANGED beside_writer
    /\ UNCHANGED <<config, section_name, section_type, content, chunks,
                   digest_batches, digests, batches, merged_outputs, result, round_in>>

\* variant: a single record is treated like no record
MergeStart_fallback_on_one ==
    /\ pc = "merge"
    /\ IF Len(chunk_outputs) <= 1
       THEN /\ result' = FallbackRecord(section_name)
            /\ pc' = "merged"
            /\ UNCHANGED <<digests, merged_outputs>>
       ELSE /\ digests' = DigestsOf(chunk_outputs)
            /\ merged_outputs' = chunk_outputs
            /\ pc' = "round"
            /\ UNCHANGED result
    /\ UNCHANGED beside_writer
    /\ UNCHANGED <<config, section_name, section_type, content, chunks,
                   digest_batches, chunk_outputs, batches, sent, round_in>>

\* lines 989-1000: _merge_structured_outputs on entry
MergeStart ==
    /\ pc = "merge"
    /\ IF chunk_outputs = <<>>
       THEN /\ result' = FallbackRecord(section_name)
            /\ pc' = "merged"
            /\ UNCHANGED <<digests, merged_outputs>>
       ELSE IF Len(chunk_outputs) = 1
       THEN /\ result' = chunk_outputs[1]
            /\ pc' = "merged"
            /\ UNCHANGED <<digests, merged_outputs>>
       ELSE /\ digests' = DigestsOf(chunk_outputs)
            /\ merged_outputs' = chunk_outputs
            /\ pc' = "round"
            /\ UNCHANGED result
    /\ UNCHANGED beside_writer
    /\ UNCHANGED <<config, section_name, section_type, content, chunks,
                   digest_batches, chunk_outputs, batches, sent, round_in>>

\* lines 1001-1008: the loop test holds; a round begins
MergeRound ==
    /\ pc = "round"
    /\ Len(merged_outputs) > 1
    /\ batches' = batch_digests(config, section_name, section_type, digests)
    /\ round_in' = Len(merged_outputs)
    /\ merged_outputs' = <<>>
    /\ pc' = "batch"
    /\ UNCHANGED beside_writer
    /\ UNCHANGED <<config, section_name, section_type, content, chunks,
                   digest_batches, chunk_outputs, digests, result, sent>>

\* lines 1009-1021: one pass of the batch loop; after the last batch, the re-digest
MergeInvoke ==
    /\ pc = "batch"
    /\ LET idx == Len(merged_outputs) + 1
       IN  \E r \in 1..Len(Replies) :
            LET outs == Append(merged_outputs,
                               Respond(r, section_name))
            IN  /\ merged_outputs' = outs
                /\ sent' = Logged(sent, Call("merge", idx,
                        merge_tokens(section_name, section_type, batches[idx]),
                        Replies[r]))
                /\ IF idx = Len(batches)
                   THEN digests' = DigestsOf(outs) /\ pc' = "round"
                   ELSE UNCHANGED digests /\ pc' = "batch"
    /\ UNCHANGED beside_writer
    /\ UNCHANGED <<config, section_name, section_type, content, chunks,
                   digest_batches, chunk_outputs, batches, result, round_in>>

\* lines 1001, 1023: the loop test fails; the one record left is returned
MergeReturn ==
    /\ pc = "round"
    /\ Len(merged_outputs) <= 1
    /\ result' = merged_outputs[1]
    /\ pc' = "merged"
    /\ UNCHANGED beside_writer
    /\ UNCHANGED <<config, section_name, section_type, content, chunks,
                   digest_batches, chunk_outputs, digests, batches, merged_outputs,
                   sent, round_in>>

\* variant: the records are attached whenever there is one
Return_parts_on_one ==
    /\ pc = "merged"
    /\ result' = IF Len(chunk_outputs) >= 1 THEN WithParts(result, chunk_outputs)
                 ELSE result
    /\ pc' = "done"
    /\ UNCHANGED beside_writer
    /\ UNCHANGED <<config, section_name, section_type, content, chunks,
                   digest_batches, chunk_outputs, digests, batches, merged_outputs,
                   sent, round_in>>

\* lines 202-204: the chunk records are attached and the record returned
Return ==
    /\ pc = "merged"
    /\ result' = IF Len(chunk_outputs) > 1 THEN WithParts(result, chunk_outputs)
                 ELSE result
    /\ pc' = "done"
    /\ UNCHANGED beside_writer
    /\ UNCHANGED <<config, section_name, section_type, content, chunks,
                   digest_batches, chunk_outputs, digests, batches, merged_outputs,
                   sent, round_in>>

MergeNext == MergeStart \/ MergeRound \/ MergeInvoke \/ MergeReturn

Next == Generate \/ InvokeWhole \/ InvokeChunk \/ InvokeDigest \/ MergeNext \/ Return

Spec == Init /\ [][Next]_vars

\* _generate_structured_content under digest budgets that a single chunk digest
\* may exceed: the digest path alone, up to the last digest call
TightDigestBudgets == {170, 180, 200}

DigestInit ==
    /\ config \in {Config(100, c, 1, 8000, d, 8000) :
                      c \in ChunkBudgets, d \in TightDigestBudgets}
    /\ section_name = Names[1]
    /\ section_type \in Types
    /\ content \in {Payloads[p] : p \in 1..Len(Payloads)}
    /\ pc = "start"
    /\ chunks = <<>>
    /\ digest_batches = <<>>
    /\ chunk_outputs = <<>>
    /\ digests = <<>>
    /\ batches = <<>>
    /\ merged_outputs = <<>>
    /\ result = NoResult
    /\ sent = <<>>
    /\ round_in = 0
    /\ BesideWriterIdle

DigestNext == Generate \/ InvokeDigest

DigestSpec == DigestInit /\ [][DigestNext]_vars

Filled(n) == [i \in 1..n |-> "x"]

\* _generate_structured_content on a Payload of seven keys, with nesting of
\* three levels and a text that takes a chunk of its own: the digest path
WideKeys == << <<"a">>, <<"b">>, <<"c">>, <<"d">>, <<"e">>, <<"f">>, <<"g">> >>

DeepValue ==
    Map(<< <<<<"p">>, Num(1)>>, <<<<"q">>, Num(2)>>, <<<<"r">>, Num(3)>>,
           <<<<"s">>, Num(4)>>, <<<<"t">>, Num(5)>>,
           <<<<"u">>, Map(<< <<<<"x">>, Lst(<<Num(1), Num(2)>>)>> >>)>> >>)

WideValues ==
    {Num(1), Lst(<<Num(1), Num(2), Num(3), Num(4)>>), DeepValue,
     Lst(<<Lst(<<Lst(<<Num(1)>>)>>), Str(<<"a", "b">>)>>)}

WidePayloads ==
    {[i \in 1..Len(WideKeys) |->
        <<WideKeys[i],
          IF i = 2 THEN v ELSE IF i = 4 THEN w
          ELSE IF i = Len(WideKeys) THEN Str(Filled(600)) ELSE Num(i)>>] :
        v \in WideValues, w \in WideValues}

WideInit ==
    /\ config \in {Config(100, c, 1, 8000, 8000, 8000) : c \in {260, 320}}
    /\ section_name = Names[1]
    /\ section_type = "analytics"
    /\ content \in WidePayloads
    /\ pc = "start"
    /\ chunks = <<>>
    /\ digest_batches = <<>>
    /\ chunk_outputs = <<>>
    /\ digests = <<>>
    /\ batches = <<>>
    /\ merged_outputs = <<>>
    /\ result = NoResult
    /\ sent = <<>>
    /\ round_in = 0
    /\ BesideWriterIdle

WideSpec == WideInit /\ [][DigestNext]_vars

\* _merge_structured_outputs called on a list of records of its own
RECURSIVE RecordLists(_)
RecordLists(n) ==
    IF n = 0 THEN {<<>>}
    ELSE LET shorter == RecordLists(n - 1)
         IN  shorter \cup {Append(rs, r) : rs \in {x \in shorter : Len(x) = n - 1},
                                           r \in InitReplies}

MergeInit ==
    /\ config \in {Config(8000, 8000, 40, g, 8000, 8000) : g \in MergeBudgets}
    /\ section_name = Names[1]
    /\ section_type = "analytics"
    /\ content = <<>>
    /\ pc = "merge"
    /\ chunks = <<>>
    /\ digest_batches = <<>>
    /\ \E rs \in RecordLists(MaxRecords) :
          chunk_outputs = [i \in 1..Len(rs) |-> Respond(rs[i], section_name)]
    /\ digests = <<>>
    /\ batches = <<>>
    /\ merged_outputs = <<>>
    /\ result = NoResult
    /\ sent = <<>>
    /\ round_in = 0
    /\ BesideWriterIdle

MergeSpec == MergeInit /\ [][MergeNext]_vars

\* _merge_structured_outputs called on two records whose fields run up to and
\* past the caps of _digest_structured_output

\* a text of n characters with a blank where the cut of 500 or 300 falls
Spaced(n) == [i \in 1..n |-> IF i \in {300, 500} THEN " " ELSE "x"]

SummaryTexts == {Filled(0), Filled(500), Filled(501), Spaced(501), Filled(640)}
ItemTexts == {Filled(300), Filled(301), Spaced(420)}
ItemCounts == {0, 5, 6, 7, 8}

LongRecords ==
    {[description |-> Filled(10), summary |-> s,
      bullets |-> [i \in 1..n |-> t], findings |-> [i \in 1..m |-> t]] :
        s \in SummaryTexts, t \in ItemTexts, n \in ItemCounts, m \in {0, 5, 6}}

RecordInit ==
    /\ config = Config(8000, 8000, 40, 8000, 8000, 8000)
    /\ section_name = Names[1]
    /\ section_type = "analytics"
    /\ content = <<>>
    /\ pc = "merge"
    /\ chunks = <<>>
    /\ digest_batches = <<>>
    /\ chunk_outputs \in {<<r, FallbackRecord(Names[1])>> : r \in LongRecords}
    /\ digests = <<>>
    /\ batches = <<>>
    /\ merged_outputs = <<>>
    /\ result = NoResult
    /\ sent = <<>>
    /\ round_in = 0
    /\ BesideWriterIdle

\* lines 998-999: the records are digested
RecordSpec == RecordInit /\ [][MergeStart]_vars

\* _merge_structured_outputs is straight-line synchronous code: a step that can
\* be taken is taken, and each generation call returns or raises.  That is weak
\* fairness of each of the four steps.  For MergeRound and MergeInvoke it is
\* written out, WF_vars(A) being []<>~ENABLED <<A>>_vars \/ []<><<A>>_vars,
\* with ENABLED replaced by the guard of the step (each of them changes pc).
MergeFair ==
    /\ MergeSpec
    /\ WF_vars(MergeStart)
    /\ WF_vars(MergeReturn)
    /\ ([]<>(~(pc = "round" /\ Len(merged_outputs) > 1)) \/ []<><<MergeRound>>_vars)
    /\ ([]<>(pc # "batch") \/ []<><<MergeInvoke>>_vars)

\* _chunk_content called on a Payload of its own
ChunkInit ==
    /\ config \in {Config(8000, c, 40, 8000, 8000, f) : c \in SplitBudgets, f \in FieldChars}
    /\ section_name = Names[1]
    /\ section_type \in Types
    /\ \E n \in 0..2 : \E v \in 1..Len(ValuePool), w \in 1..Len(ValuePool) :
          content = Take(<< <<ChunkKeys[1], ValuePool[v]>>,
                            <<ChunkKeys[2], ValuePool[w]>> >>, n)
    /\ pc = "split"
    /\ chunks = <<>>
    /\ digest_batches = <<>>
    /\ chunk_outputs = <<>>
    /\ digests = <<>>
    /\ batches = <<>>
    /\ merged_outputs = <<>>
    /\ result = NoResult
    /\ sent = <<>>
    /\ round_in = 0
    /\ BesideWriterIdle

\* lines 774-788
ChunkContent ==
    /\ pc = "split"
    /\ chunks' = chunk_content(config, section_name, section_type, content,
                               config.chunk_budget)
    /\ pc' = "chunked"
    /\ UNCHANGED beside_writer
    /\ UNCHANGED <<config, section_name, section_type, content, digest_batches,
                   chunk_outputs, digests, batches, merged_outputs, result, sent,
                   round_in>>

ChunkSpec == ChunkInit /\ [][ChunkContent]_vars

----------------------------------------------------------------------------
(* _invoke_structured_response called on its own: the replies, the step *)

\* texts a string value of a reply may hold: raw newline, carriage return and
\* tab, quotes and backslashes
FieldTexts ==
    {<<"a", "\n", "b">>,
     <<"a", "\t", "b">>,
     <<"a", "\r", "\n", "b">>,
     <<"s", "a", "y", " ", "\"", "h", "i", "\"", "\n", "b", "y", "e">>,
     <<"b", "a", "c", "k", "\\", "s", "l", "a", "s", "h", "\n">>,
     <<"q", "\"", "\n">>,
     <<"p", "l", "a", "i", "n">>,
     <<"x", "\n", "\n", "y", "\t", "z">>,
     <<"{", "a", "}", "\n", "[", "b", "]">>,
     <<"\r">>,
     <<"t", "a", "b", "\t", "e", "n", "d", ".", " ", "N", "e", "x", "t">>,
     <<>>}

\* replies that hold no JSON object
ProseTexts ==
    {<<"N", "o", " ", "d", "a", "t", "a">>,
     <<>>,
     <<" ", " ", " ">>,
     <<"[", "1", "]">>,
     <<"4", "2">>,
     <<"\"", "j", "u", "s", "t", " ", "t", "e", "x", "t", "\"">>,
     <<"n", "u", "l", "l">>,
     <<"O", "n", "e", ".", "\n", "T", "w", "o", ".", " ", "T", "h", "r", "e", "e">>,
     <<"O", "n", "e", ".", " ", "T", "w", "o", ".", "\n", "T", "h", "r", "e", "e">>,
     <<"a", "\n", "b", ".", " ", "c">>,
     <<" ", " ", "p", "a", "d", "d", "e", "d", " ", "t", "e", "x", "t", ".", " ",
        " ">>,
     <<"{", "b", "r", "o", "k", "e", "n">>,
     <<"s", "e", "e", " ", "{", "n", "o", "t", " ", "j", "s", "o", "n", "}", " ",
        "h", "e", "r", "e">>,
     <<Backtick, Backtick, Backtick, "\n", "p", "l", "a", "i", "n", "\n",
        Backtick, Backtick, Backtick>>,
     <<"{", "\"", "a", "\"", ":", " ", "}">>,
     <<"L", "i", "n", "e", " ", "o", "n", "e", "\n", "l", "i", "n", "e", " ", "t",
        "w", "o">>,
     <<".", "\n", "a", "b", "c">>,
     <<"[", "{", "\"", "d", "e", "s", "c", "r", "i", "p", "t", "i", "o", "n",
        "\"", ":", " ", "\"", "i", "n", " ", "l", "i", "s", "t", "\"", "}", "]">>}

\* a character as the collaborator writes it between quotes: quote and backslash
\* escaped, newline, carriage return and tab left raw
RawEmbedChar(c) == IF c \in {"\"", "\\"} THEN <<"\\", c>> ELSE <<c>>

RawEmbed(t) == Flatten([i \in 1..Len(t) |-> RawEmbedChar(t[i])])

ObjectKinds == {"flat", "spread"}

\* an object whose description is the literal with the given body; the spread
\* one has line breaks and indentation outside its literals
ObjectAround(kind, body) ==
    IF kind = "flat"
    THEN <<"{", "\"", "d", "e", "s", "c", "r", "i", "p", "t", "i", "o", "n", "\"",
  ":", " ", "\"">>
            \o body \o <<"\"", "}">>
    ELSE <<"{", "\n", " ", " ", "\"", "d", "e", "s", "c", "r", "i", "p", "t", "i",
  "o", "n", "\"", ":", " ", "\"">>
            \o body
            \o <<"\"", ",", "\n", " ", " ", "\"", "b", "u", "l", "l", "e", "t", "s", "\"",
  ":", " ", "[", "]", "\n", "}">>

WrapKinds == {"plain", "fenced", "chatty"}

\* the object as it is, inside code fences, or after a lead-in
Wrapped(kind, text) ==
    CASE kind = "plain" -> text
      [] kind = "fenced" ->
            <<Backtick, Backtick, Backtick, "j", "s", "o", "n", "\n">> \o text
                \o <<"\n", Backtick, Backtick, Backtick>>
      [] kind = "chatty" -> <<"H", "e", "r", "e", " ", "y", "o", "u", " ", "g", "o", ":", " ">> \o text

ObjectReply(t, o, w) == Wrapped(w, ObjectAround(o, RawEmbed(t)))

ObjectTexts == {ObjectReply(t, o, w) : t \in FieldTexts, o \in ObjectKinds, w \in WrapKinds}

\* what invoke_llm may do on the call
ReplyPool == {Raised} \cup {Reply(t) : t \in ObjectTexts \cup ProseTexts}

ReplyInit ==
    /\ config = Config(8000, 8000, 40, 8000, 8000, 8000)
    /\ section_name \in {Names[i] : i \in 1..Len(Names)}
    /\ section_type = "analytics"
    /\ content = <<>>
    /\ pc = "invoke"
    /\ chunks = <<>>
    /\ digest_batches = <<>>
    /\ chunk_outputs = <<>>
    /\ digests = <<>>
    /\ batches = <<>>
    /\ merged_outputs = <<>>
    /\ result = NoResult
    /\ sent = <<>>
    /\ round_in = 0
    /\ BesideWriterIdle

\* lines 287-328: the call, the parse and the record
InvokeStructuredResponse ==
    /\ pc = "invoke"
    /\ \E reply \in ReplyPool :
          /\ IF reply.raised
             THEN pc' = "raised" /\ UNCHANGED invoker_vars
             ELSE /\ pc' = "replied"
                  /\ response_text' = reply.text
                  /\ parsed_reply' = parse_json_response(reply.text)
          /\ result' = invoke_structured_response(reply, section_name)
    /\ UNCHANGED beside_invoker
    /\ UNCHANGED <<config, section_name, section_type, content, chunks,
                   digest_batches, chunk_outputs, digests, batches, merged_outputs,
                   sent, round_in>>

ReplySpec == ReplyInit /\ [][InvokeStructuredResponse]_vars

----------------------------------------------------------------------------
(* _split_list_item called on its own: one key holding a list *)

MaxListLen == 4      \* most items of the list handed to _split_list_item

\* an item the list may hold: numbers, a text, a nested list, a nested mapping
ListItems ==
    {Num(1), Num(22), Str(<<"a", "b">>), Lst(<<Num(1), Num(2)>>),
     Map(<< <<<<"k">>, Num(1)>> >>)}

\* budgets around the size of a prompt that carries one to four such items
ListBudgets == {150, 154, 156, 158, 164, 168}

RECURSIVE ListsUpTo(_)
ListsUpTo(n) ==
    IF n = 0 THEN {<<>>}
    ELSE LET shorter == ListsUpTo(n - 1)
         IN  shorter \cup {Append(l, x) : l \in {s \in shorter : Len(s) = n - 1},
                                          x \in ListItems}

ListInit ==
    /\ config \in {Config(8000, b, 40, 8000, 8000, 8000) : b \in ListBudgets}
    /\ section_name = Names[1]
    /\ section_type \in Types
    /\ content \in {One(ChunkKeys[1], Lst(l)) : l \in ListsUpTo(MaxListLen)}
    /\ pc = "list"
    /\ chunks = <<>>
    /\ digest_batches = <<>>
    /\ chunk_outputs = <<>>
    /\ digests = <<>>
    /\ batches = <<>>
    /\ merged_outputs = <<>>
    /\ result = NoResult
    /\ sent = <<>>
    /\ round_in = 0
    /\ BesideWriterIdle

\* lines 553-590, the call _split_list_item(section_name, section_type, key, value, budget)
SplitListItem ==
    /\ pc = "list"
    /\ chunks' = split_list_item(config, section_name, section_type, content[1][1],
                                 content[1][2].xs, config.chunk_budget)
    /\ pc' = "listed"
    /\ UNCHANGED beside_writer
    /\ UNCHANGED <<config, section_name, section_type, content, digest_batches,
                   chunk_outputs, digests, batches, merged_outputs, result, sent,
                   round_in>>

SplitListSpec == ListInit /\ [][SplitListItem]_vars

----------------------------------------------------------------------------
(* _expand_item called on one key holding a text *)

MaxTextLen == 12     \* longest of the short texts handed to _expand_item

TextAlphabet ==
    <<"a", "b", " ", "c", "d", ".", "e", "\n", "f", "g", " ", " ", "h", "i">>

\* the short texts: the first n characters, or the last n, of the alphabet
ShortTexts ==
    {Take(TextAlphabet, n) : n \in 0..MaxTextLen}
        \cup {Drop(TextAlphabet, Len(TextAlphabet) - n) : n \in 0..MaxTextLen}

TextDigits == <<"0", "1", "2", "3", "4", "5", "6", "7", "8", "9">>

\* a text of 20,000 characters
LongText == [i \in 1..20000 |-> TextDigits[(i % 10) + 1]]

TextWindows == {1, 2, 3, 5, 12}

\* the budgets: below every prompt, and wide enough for the shorter texts
TextBudgets == {100, 158}

TextInit ==
    /\ \/ /\ config \in {Config(8000, b, 40, 8000, 8000, w) :
                             b \in TextBudgets, w \in TextWindows}
          /\ content \in {One(ChunkKeys[1], Str(t)) : t \in ShortTexts}
       \/ /\ config = Config(8000, 4000, 40, 8000, 8000, 8000)
          /\ content = One(ChunkKeys[1], Str(LongText))
    /\ section_name = Names[1]
    /\ section_type \in Types
    /\ pc = "expand"
    /\ chunks = <<>>
    /\ digest_batches = <<>>
    /\ chunk_outputs = <<>>
    /\ digests = <<>>
    /\ batches = <<>>
    /\ merged_outputs = <<>>
    /\ result = NoResult
    /\ sent = <<>>
    /\ round_in = 0
    /\ BesideWriterIdle

\* lines 681-713, the call _expand_item(section_name, section_type, key, value, budget)
ExpandItem ==
    /\ pc = "expand"
    /\ chunks' = expand_item(config, section_name, section_type, content[1][1],
                             content[1][2], config.chunk_budget)
    /\ pc' = "expanded"
    /\ UNCHANGED beside_writer
    /\ UNCHANGED <<config, section_name, section_type, content, digest_batches,
                   chunk_outputs, digests, batches, merged_outputs, result, sent,
                   round_in>>

ExpandTextSpec == TextInit /\ [][ExpandItem]_vars

----------------------------------------------------------------------------
(* _pack_payloads on fragments of several keys, reached through _chunk_content *)

MaxPackKeys == 3     \* most keys of the mapping whose fragments are packed

PackKeys == << <<"a">>, <<"b">>, <<"c">>, <<"d">> >>

\* values of three sizes, and a list that one batch may not hold whole
PackValues ==
    {Num(1),
     Str(<<"h", "e", "l", "l", "o", " ", "w", "o", "r", "l", "d", ".">>),
     Str(<<"n", "o", "r", "t", "h", " ", "g", "r", "e", "w", " ", "a", "n", "d", " ",
           "s", "o", "u", "t", "h", " ", "f", "e", "l", "l", ".">>),
     Lst(<<Num(1), Num(22), Num(333)>>)}

PackBudgets == {154, 157, 160, 165}

RECURSIVE PackMappings(_)
PackMappings(n) ==
    IF n = 0 THEN {<<>>}
    ELSE LET shorter == PackMappings(n - 1)
         IN  shorter \cup {Append(m, <<PackKeys[n], v>>) :
                              m \in {s \in shorter : Len(s) = n - 1}, v \in PackValues}

PackInit ==
    /\ config \in {Config(8000, b, 40, 8000, 8000, 8000) : b \in PackBudgets}
    /\ section_name = Names[1]
    /\ section_type \in Types
    /\ content \in PackMappings(MaxPackKeys)
    /\ pc = "split"
    /\ chunks = <<>>
    /\ digest_batches = <<>>
    /\ chunk_outputs = <<>>
    /\ digests = <<>>
    /\ batches = <<>>
    /\ merged_outputs = <<>>
    /\ result = NoResult
    /\ sent = <<>>
    /\ round_in = 0
    /\ BesideWriterIdle

PackSpec == PackInit /\ [][ChunkContent]_vars

----------------------------------------------------------------------------
(* _chunk_content on one key holding a nested mapping *)

NestBudgets == {154, 157, 160, 165, 172}

NestInit ==
    /\ config \in {Config(8000, b, 40, 8000, 8000, 8000) : b \in NestBudgets}
    /\ section_name = Names[1]
    /\ section_type \in Types
    /\ content \in {One(ChunkKeys[1], Map(m)) : m \in PackMappings(MaxPackKeys)}
    /\ pc = "split"
    /\ chunks = <<>>
    /\ digest_batches = <<>>
    /\ chunk_outputs = <<>>
    /\ digests = <<>>
    /\ batches = <<>>
    /\ merged_outputs = <<>>
    /\ result = NoResult
    /\ sent = <<>>
    /\ round_in = 0
    /\ BesideWriterIdle

NestSpec == NestInit /\ [][ChunkContent]_vars

----------------------------------------------------------------------------
(* _shrink_payload_to_fit called by the packer on one isolated fragment *)

ShrinkBudgets == {148, 150, 152, 154, 157, 160}

ShrinkInit ==
    /\ config \in {Config(8000, b, 40, 8000, 8000, 8000) : b \in ShrinkBudgets}
    /\ section_name = Names[1]
    /\ section_type \in Types
    /\ content \in {One(ChunkKeys[1], Lst(l)) : l \in ListsUpTo(MaxListLen)}
                   \cup {One(ChunkKeys[1], Map(m)) : m \in PackMappings(MaxPackKeys)}
    /\ pc = "shrink"
    /\ chunks = <<>>
    /\ digest_batches = <<>>
    /\ chunk_outputs = <<>>
    /\ digests = <<>>
    /\ batches = <<>>
    /\ merged_outputs = <<>>
    /\ result = NoResult
    /\ sent = <<>>
    /\ round_in = 0
    /\ BesideWriterIdle

\* lines 738-742: a fragment that does not fit when isolated is shrunk
ShrinkPayload ==
    /\ pc = "shrink"
    /\ ~fits_budget(section_name, section_type, content, config.chunk_budget)
    /\ chunks' = <<shrink_payload_to_fit(config, section_name, section_type, content,
                                         config.chunk_budget)>>
    /\ pc' = "shrunk"
    /\ UNCHANGED beside_writer
    /\ UNCHANGED <<config, section_name, section_type, content, digest_batches,
                   chunk_outputs, digests, batches, merged_outputs, result, sent,
                   round_in>>

ShrinkSpec == ShrinkInit /\ [][ShrinkPayload]_vars

----------------------------------------------------------------------------
(* _estimate_prompt_tokens called on a prompt and a system prompt *)

MaxPromptLen == 12   \* longest prompt and system prompt estimated, in characters

EstimateInit ==
    /\ config = Config(8000, 8000, 40, 8000, 8000, 8000)
    /\ section_name = Names[1]
    /\ section_type = "analytics"
    /\ content = <<>>
    /\ pc = "estimate"
    /\ chunks = <<>>
    /\ digest_batches = <<>>
    /\ chunk_outputs = <<>>
    /\ digests = <<>>
    /\ batches = <<>>
    /\ merged_outputs = <<>>
    /\ result = NoResult
    /\ sent = <<>>
    /\ round_in = 0
    /\ InvokerIdle
    /\ TableIdle
    /\ AnalyserIdle
    /\ GraphIdle
    /\ est_prompt_len \in 0..MaxPromptLen
    /\ est_system_len \in 0..MaxPromptLen
    /\ est_tokens = 0

\* lines 528-529, the tokenizer being unavailable (lines 524-526)
EstimatePromptTokens ==
    /\ pc = "estimate"
    /\ est_tokens' = estimate_prompt_tokens(est_prompt_len, est_system_len)
    /\ pc' = "estimated"
    /\ UNCHANGED <<est_prompt_len, est_system_len>>
    /\ UNCHANGED <<config, section_name, section_type, content, chunks, digest_batches,
                   chunk_outputs, digests, batches, merged_outputs, result, sent,
                   round_in>>
    /\ UNCHANGED <<invoker_vars, table_vars, analyser_vars, graph_vars>>

EstimateSpec == EstimateInit /\ [][EstimatePromptTokens]_vars

----------------------------------------------------------------------------
(* The table-value summaries: _summarize_table_values and what it calls *)

\* len(_table_value_prompt(section_name, data)) less the name and the JSON text
TableTemplateLen == 271
\* len(_table_value_system_prompt())
TableSystemPromptLen == 183
\* the prompt of _rewrite_table_value less the key and the JSON text of the value
RewriteTemplateLen == 183
\* the system prompt of _rewrite_table_value
RewriteSystemPromptLen == 117
\* _summarize_dict_value keeps the first six entries
DictValueMaxParts == 6
\* _fallback_table_value samples the first three items
ListValueSample == 3

table_value_tokens(name, data) ==
    estimate_prompt_tokens(
        TableTemplateLen + Len(name) + json_indent_len(Map(data), 0),
        TableSystemPromptLen)

\* the loop of _batch_table_values from entry i on
RECURSIVE batch_table_loop(_, _, _, _, _, _)
batch_table_loop(cfg, name, mapping, i, out, current) ==
    IF i > Len(mapping)
    THEN IF current # <<>> THEN Append(out, current) ELSE out
    ELSE
        LET candidate == DictSet(current, mapping[i][1], mapping[i][2])
        IN  IF table_value_tokens(name, candidate) <= cfg.table_value_budget
            THEN batch_table_loop(cfg, name, mapping, i + 1, out, candidate)
            ELSE batch_table_loop(cfg, name, mapping, i + 1,
                     IF current # <<>> THEN Append(out, current) ELSE out,
                     << mapping[i] >>)

batch_table_values(cfg, name, mapping) ==
    batch_table_loop(cfg, name, mapping, 1, <<>>, <<>>)

UpperChar(c) ==
    IF IsLower(c)
    THEN UpperLetters[CHOOSE i \in 1..Len(LowerLetters) : LowerLetters[i] = c]
    ELSE c

IsCased(c) == IsUpper(c) \/ IsLower(c)

\* str.title(): a letter after a non-letter is put in upper case, any other in lower
title(s) ==
    [i \in 1..Len(s) |->
        IF i = 1 \/ ~IsCased(s[i - 1]) THEN UpperChar(s[i]) ELSE LowerChar(s[i])]

\* text.replace("_", " ")
underscores_to_spaces(s) == [i \in 1..Len(s) |-> IF s[i] = "_" THEN " " ELSE s[i]]

format_key(key) ==
    LET text == strip(underscores_to_spaces(key))
    IN  IF text # <<>> THEN title(text) ELSE key

MultipleFields == <<"m", "u", "l", "t", "i", "p", "l", "e", " ", "f", "i", "e", "l", "d", "s">>
ItemsWord == <<" ", "i", "t", "e", "m", "s">>
NoItems == <<"N", "o", " ", "i", "t", "e", "m", "s">>
SampleWord == <<";", " ", "s", "a", "m", "p", "l", "e", ":", " ">>

format_scalar(value) ==
    CASE IsDict(value) -> MultipleFields
      [] IsList(value) -> IntText(Len(value.xs)) \o ItemsWord
      [] OTHER -> py_str(value)

summarize_dict_value(kv) ==
    JoinText([i \in 1..Min(Len(kv), DictValueMaxParts) |->
                 format_key(kv[i][1]) \o <<" ">> \o format_scalar(kv[i][2])],
             <<";", " ">>)

fallback_table_value(value) ==
    CASE IsDict(value) -> summarize_dict_value(value.kv)
      [] IsList(value) ->
            IF value.xs = <<>> THEN NoItems
            ELSE IntText(Len(value.xs)) \o ItemsWord \o SampleWord
                 \o JoinText([i \in 1..Min(Len(value.xs), ListValueSample) |->
                                 format_scalar(value.xs[i])], <<",", " ">>)
      [] OTHER -> py_str(value)

summary_needs_rewrite(summary) ==
    \/ summary = <<>>
    \/ \E i \in 1..Len(summary) : summary[i] \in {"{", "}", "[", "]"}

rewrite_tokens(key, value) ==
    estimate_prompt_tokens(RewriteTemplateLen + Len(key) + json_indent_len(value, 0),
                           RewriteSystemPromptLen)

\* _rewrite_table_value makes no call when its prompt is over the budget
rewrite_over_budget(cfg, key, value) ==
    rewrite_tokens(key, value) > cfg.table_value_budget

None == [none |-> TRUE]

\* what _rewrite_table_value returns on the reply of its call: the text, or None
rewritten_from(reply) ==
    IF reply.raised THEN None
    ELSE LET cleaned == strip_chars(strip(reply.text), "\"")
         IN  IF cleaned = <<>> \/ summary_needs_rewrite(cleaned) THEN None
             ELSE [none |-> FALSE, text |-> cleaned]

\* the configuration _summarize_table_values reads
TableConfig(b, r, m) ==
    [table_value_budget |-> b, table_value_rewrite_max |-> r, table_value_max_calls |-> m]

\* config.py sets no LLM_TABLE_VALUE_MAX_CALLS: the attribute is there only when it
\* has been assigned on the config object
NoAttribute == [set |-> FALSE]
Attribute(n) == [set |-> TRUE, n |-> n]

MaxTableKeys == 3    \* most keys of the mapping handed to _summarize_table_values

TableEntries ==
    << <<<<"t", "o", "t", "a", "l">>, Lst(<<Num(1), Num(22), Num(3), Num(4)>>)>>,
       <<<<"b", "y", "_", "r", "e", "g", "i", "o", "n">>,
         Map(<< <<<<"n", "o", "r", "t", "h">>, Num(5)>>,
                <<<<"e", "u">>, Lst(<<Num(1)>>)>> >>)>>,
       <<<<"n", "o", "t", "e">>, Str(<<"s", "e", "e", " ", "[", "1", "]">>)>>,
       <<<<"n">>, Num(7)>> >>

\* budgets: a batch per key, room for two keys, room for all
TableBudgets == {118, 136, 8000}
RewriteCaps == {1, 2}
TableCallCaps == {NoAttribute, Attribute(1), Attribute(3)}

\* what the reply of a batch call may hold for a key: a plain summary, one with
\* brackets in it, a number, or nothing
PlainSummary == Str(<<" ", "U", "p", " ", "5", " ">>)
BracketSummary == Str(<<"{", "u", "p", ":", " ", "5", "}">>)
SummaryChoices == {PlainSummary, BracketSummary, Num(5)}

RECURSIVE SummaryDicts(_)
SummaryDicts(keys) ==
    IF keys = <<>> THEN {<<>>}
    ELSE LET rest == SummaryDicts(Tail(keys))
         IN  rest \cup {<< <<Head(keys), v>> >> \o d : v \in SummaryChoices, d \in rest}

\* the replies to the call for a batch: a raise, prose, or the JSON text of a mapping
TableReplies(batch) ==
    {Raised, Reply(ProseReplyText)}
        \cup {Reply(json_dumps(Map(d))) : d \in SummaryDicts(Keys(batch)) \ {<<>>}}

RewriteReplies ==
    {Raised,
     Reply(<<"\"", "F", "o", "u", "r", " ", "i", "t", "e", "m", "s", ".", "\"", "\n">>),
     Reply(<<"[", "1", ",", " ", "2", "2", "]">>),
     Reply(<<" ">>)}

TableInit ==
    /\ config \in {TableConfig(b, r, m) :
                      b \in TableBudgets, r \in RewriteCaps, m \in TableCallCaps}
    /\ section_name = Names[1]
    /\ section_type = "analytics"
    /\ content \in {Take(TableEntries, n) : n \in 0..MaxTableKeys}
    /\ pc = "table"
    /\ chunks = <<>>
    /\ digest_batches = <<>>
    /\ chunk_outputs = <<>>
    /\ digests = <<>>
    /\ batches = <<>>
    /\ merged_outputs = <<>>
    /\ result = NoResult
    /\ sent = <<>>
    /\ round_in = 0
    /\ BesideWriterIdle

\* summaries[key] = self._fallback_table_value(value) for every entry of the batch
WithFallbacks(sums, batch) ==
    DictUpdate(sums, [i \in 1..Len(batch) |->
                        <<batch[i][1], Str(fallback_table_value(batch[i][2]))>>])

NextBatch == [batch |-> table_at.batch + 1, key |-> 0]

\* lines 334-346: the empty mapping, or the batches and the counters at zero
SummarizeStart ==
    /\ pc = "table"
    /\ IF content = <<>>
       THEN /\ pc' = "tabled"
            /\ UNCHANGED <<table_batches, table_at>>
       ELSE /\ table_batches' = batch_table_values(config, section_name, content)
            /\ table_at' = [batch |-> 1, key |-> 0]
            /\ pc' = "tbatch"
    /\ summaries' = <<>>
    /\ rewrite_count' = 0
    /\ call_count' = 0
    /\ UNCHANGED table_parsed
    /\ UNCHANGED beside_table
    /\ UNCHANGED <<config, section_name, section_type, content, chunks, digest_batches,
                   chunk_outputs, digests, batches, merged_outputs, result, sent,
                   round_in>>

\* lines 347-380: one pass of the loop over the batches, up to the parsed reply
TableBatch ==
    /\ pc = "tbatch"
    /\ IF table_at.batch > Len(table_batches)
       THEN /\ pc' = "tabled"
            /\ UNCHANGED <<table_parsed, table_at, summaries, call_count, sent>>
       ELSE IF ~config.table_value_max_calls.set
       THEN /\ pc' = "attribute_error"
            /\ UNCHANGED <<table_parsed, table_at, summaries, call_count, sent>>
       ELSE IF call_count >= config.table_value_max_calls.n
       THEN /\ summaries' = WithFallbacks(summaries, table_batches[table_at.batch])
            /\ table_at' = NextBatch
            /\ pc' = "tbatch"
            /\ UNCHANGED <<table_parsed, call_count, sent>>
       ELSE LET batch == table_batches[table_at.batch]
            IN  \E reply \in TableReplies(batch) :
                   /\ call_count' = call_count + 1
                   /\ sent' = Logged(sent, Call("table", table_at.batch,
                                 table_value_tokens(section_name, batch), reply))
                   /\ IF reply.raised
                      THEN /\ summaries' = WithFallbacks(summaries, batch)
                           /\ table_at' = NextBatch
                           /\ pc' = "tbatch"
                           /\ UNCHANGED table_parsed
                      ELSE /\ table_parsed' = parse_json_response(reply.text)
                           /\ table_at' = [batch |-> table_at.batch, key |-> 1]
                           /\ pc' = "tkey"
                           /\ UNCHANGED summaries
    /\ UNCHANGED <<table_batches, rewrite_count>>
    /\ UNCHANGED beside_table
    /\ UNCHANGED <<config, section_name, section_type, content, chunks, digest_batches,
                   chunk_outputs, digests, batches, merged_outputs, result, round_in>>

\* lines 382-402: one pass of the loop over the entries of the batch, with the call of
\* _rewrite_table_value (lines 449-489) it may make
TableKey ==
    /\ pc = "tkey"
    /\ LET batch == table_batches[table_at.batch]
           key == batch[table_at.key][1]
           value == batch[table_at.key][2]
           summary == DictGet(table_parsed, key, Null)
           fallback == DictSet(summaries, key, Str(fallback_table_value(value)))
       IN  IF IsStr(summary) /\ strip(summary.s) # <<>>
           THEN IF /\ summary_needs_rewrite(strip(summary.s))
                   /\ rewrite_count < config.table_value_rewrite_max
                THEN IF rewrite_over_budget(config, key, value)
                     THEN /\ summaries' = fallback
                          /\ UNCHANGED <<rewrite_count, sent>>
                     ELSE \E reply \in RewriteReplies :
                            /\ sent' = Logged(sent, Call("rewrite", table_at.key,
                                                  rewrite_tokens(key, value), reply))
                            /\ IF rewritten_from(reply).none
                               THEN /\ summaries' = fallback
                                    /\ UNCHANGED rewrite_count
                               ELSE /\ summaries' = DictSet(summaries, key,
                                                        Str(rewritten_from(reply).text))
                                    /\ rewrite_count' = rewrite_count + 1
                ELSE /\ summaries' = DictSet(summaries, key, Str(strip(summary.s)))
                     /\ UNCHANGED <<rewrite_count, sent>>
           ELSE /\ summaries' = fallback
                /\ UNCHANGED <<rewrite_count, sent>>
    /\ IF table_at.key = Len(table_batches[table_at.batch])
       THEN /\ table_at' = NextBatch
            /\ pc' = "tbatch"
       ELSE /\ table_at' = [batch |-> table_at.batch, key |-> table_at.key + 1]
            /\ pc' = "tkey"
    /\ UNCHANGED <<table_batches, table_parsed, call_count>>
    /\ UNCHANGED beside_table
    /\ UNCHANGED <<config, section_name, section_type, content, chunks, digest_batches,
                   chunk_outputs, digests, batches, merged_outputs, result, round_in>>

TableNext == SummarizeStart \/ TableBatch \/ TableKey

TableSpec == TableInit /\ [][TableNext]_vars

----------------------------------------------------------------------------
(* The Input Analyser: InputAnalyserAgent.process and what it calls *)

\* ANALYTICS_NUMERIC_RATIO, 0.3, as the fraction 3 / 10
AnalyticsRatioNum == 3
AnalyticsRatioDen == 10
AnalyticsMinNumericValues == 4
AnalyticsSeriesMinLength == 3
AnalyticsSampleLimit == 5000

AnalyserConfig(sample_limit, series_min_length, min_numeric_values) ==
    [sample_limit |-> sample_limit, series_min_length |-> series_min_length,
     min_numeric_values |-> min_numeric_values]

IsDigits(s) == s # <<>> /\ \A i \in 1..Len(s) : s[i] \in Digits

\* digits, digits with a point before, after or inside them
IsPointNumeral(s) ==
    LET dots == {i \in 1..Len(s) : s[i] = "."}
    IN  IF dots = {} THEN IsDigits(s)
        ELSE /\ Cardinality(dots) = 1
             /\ LET d == MinOf(dots)
                    before == SubSeq(s, 1, d - 1)
                    after == SubSeq(s, d + 1, Len(s))
                IN  /\ before # <<>> \/ after # <<>>
                    /\ before = <<>> \/ IsDigits(before)
                    /\ after = <<>> \/ IsDigits(after)

Unsigned(s) == IF s # <<>> /\ s[1] \in {"+", "-"} THEN Tail(s) ELSE s

\* a numeral with an optional exponent
IsDecimalNumeral(s) ==
    LET es == {i \in 1..Len(s) : s[i] \in {"e", "E"}}
    IN  IF es = {} THEN IsPointNumeral(s)
        ELSE /\ IsPointNumeral(SubSeq(s, 1, MinOf(es) - 1))
             /\ IsDigits(Unsigned(SubSeq(s, MinOf(es) + 1, Len(s))))

\* whether float(text) returns: surrounding whitespace, a sign, then a numeral or
\* inf, infinity or nan in any case (texts with "_" between digits are not modelled)
float_parses(text) ==
    LET body == Unsigned(strip(text))
    IN  \/ lower(body) \in {<<"i", "n", "f">>, <<"n", "a", "n">>,
                            <<"i", "n", "f", "i", "n", "i", "t", "y">>}
        \/ IsDecimalNumeral(body)

\* value.strip().replace(",", ""), less one "%" at the end
number_text(s) ==
    LET cleaned == SelectSeq(strip(s), LAMBDA c : c # ",")
    IN  IF EndsWith(cleaned, <<"%">>) THEN SubSeq(cleaned, 1, Len(cleaned) - 1)
        ELSE cleaned

\* _coerce_number(value) is not None
coerce_number(value) ==
    CASE value.t = "bool" -> FALSE
      [] value.t = "num" -> TRUE
      [] value.t = "str" -> float_parses(number_text(value.s))
      [] OTHER -> FALSE

DictValues(kv) == [i \in 1..Len(kv) |-> kv[i][2]]

\* the while loop of _count_numeric_values: the stack is popped at its end
RECURSIVE count_numeric_loop(_, _, _, _)
count_numeric_loop(stack, sample_limit, numeric_count, total_count) ==
    IF stack = <<>> \/ total_count >= sample_limit
    THEN <<numeric_count, total_count>>
    ELSE
        LET current == stack[Len(stack)]
            rest == SubSeq(stack, 1, Len(stack) - 1)
        IN  IF current.t = "bool"
            THEN count_numeric_loop(rest, sample_limit, numeric_count, total_count + 1)
            ELSE IF coerce_number(current)
            THEN count_numeric_loop(rest, sample_limit, numeric_count + 1,
                                    total_count + 1)
            ELSE IF IsDict(current)
            THEN count_numeric_loop(rest \o DictValues(current.kv), sample_limit,
                                    numeric_count, total_count)
            ELSE IF IsList(current)
            THEN count_numeric_loop(rest \o current.xs, sample_limit,
                                    numeric_count, total_count)
            ELSE count_numeric_loop(rest, sample_limit, numeric_count, total_count + 1)

count_numeric_values(value, sample_limit) ==
    count_numeric_loop(<<value>>, sample_limit, 0, 0)

\* numeric_key_counts[key]: the items that are mappings with a number under the key
numeric_key_count(items, key) ==
    Cardinality({i \in 1..Len(items) :
        /\ IsDict(items[i])
        /\ HasKey(items[i].kv, key)
        /\ coerce_number(DictGet(items[i].kv, key, Null))})

list_has_numeric_series(items, min_length) ==
    IF Len(items) < min_length THEN FALSE
    ELSE IF \A i \in 1..Len(items) : coerce_number(items[i]) THEN TRUE
    ELSE \E i \in 1..Len(items) :
            /\ IsDict(items[i])
            /\ \E k \in KeySet(items[i].kv) :
                  /\ coerce_number(DictGet(items[i].kv, k, Null))
                  /\ numeric_key_count(items, k) >= min_length

\* the while loop of _has_numeric_series
RECURSIVE numeric_series_loop(_, _)
numeric_series_loop(stack, min_length) ==
    IF stack = <<>> THEN FALSE
    ELSE
        LET current == stack[Len(stack)]
            rest == SubSeq(stack, 1, Len(stack) - 1)
        IN  IF IsDict(current)
            THEN numeric_series_loop(rest \o DictValues(current.kv), min_length)
            ELSE IF IsList(current)
            THEN \/ list_has_numeric_series(current.xs, min_length)
                 \/ numeric_series_loop(rest \o current.xs, min_length)
            ELSE numeric_series_loop(rest, min_length)

has_numeric_series(value, min_length) == numeric_series_loop(<<value>>, min_length)

infer_section_type(cfg, mapping) ==
    IF mapping = <<>> THEN "descriptive"
    ELSE
        LET counts == count_numeric_values(Map(mapping), cfg.sample_limit)
            numeric_count == counts[1]
            total_count == counts[2]
        IN  IF has_numeric_series(Map(mapping), cfg.series_min_length) THEN "analytics"
            ELSE IF /\ total_count > 0
                    /\ numeric_count >= cfg.min_numeric_values
                    /\ numeric_count * AnalyticsRatioDen >= AnalyticsRatioNum * total_count
            THEN "analytics"
            ELSE IF numeric_count >= cfg.min_numeric_values * 2 THEN "analytics"
            ELSE "descriptive"

ItemsKey == <<"i", "t", "e", "m", "s">>
ValueKey == <<"v", "a", "l", "u", "e">>
ContentKey == <<"c", "o", "n", "t", "e", "n", "t">>
DataKey == <<"d", "a", "t", "a">>
ClientNameKey == <<"c", "l", "i", "e", "n", "t", "_", "n", "a", "m", "e">>
AnalyticsText == <<"a", "n", "a", "l", "y", "t", "i", "c", "s">>
DescriptiveText == <<"d", "e", "s", "c", "r", "i", "p", "t", "i", "v", "e">>

\* the mapping _normalize_content returns
normalize_content(value) ==
    CASE IsDict(value) -> value.kv
      [] IsList(value) -> << <<ItemsKey, value>> >>
      [] OTHER -> << <<ValueKey, value>> >>

format_section_name(name) == title(underscores_to_spaces(name))

InputIsEmpty ==
    <<"I", "n", "p", "u", "t", " ", "d", "a", "t", "a", " ", "i", "s", " ", "e", "m",
    "p", "t", "y">>
NoDataSection ==
    <<"N", "o", " ", "'", "d", "a", "t", "a", "'", " ", "s", "e", "c", "t", "i", "o",
    "n", " ", "f", "o", "u", "n", "d", " ", "i", "n", " ", "i", "n", "p", "u", "t">>
NoValidSections ==
    <<"N", "o", " ", "v", "a", "l", "i", "d", " ", "s", "e", "c", "t", "i", "o", "n",
    "s", " ", "f", "o", "u", "n", "d", " ", "i", "n", " ", "d", "a", "t", "a">>

MaxSections == 2     \* most sections under 'data'

SectionNames ==
    << <<"s", "a", "l", "e", "s", "_", "d", "a", "t", "a">>, <<"n", "o", "t", "e", "s">>,
       <<"q", "3">> >>

FourNumbers ==
    Map(<< <<<<"a">>, Num(1)>>, <<<<"b">>, Str(<<"2", "0", "%">>)>>,
           <<<<"c">>, Str(<<"1", ",", "5", "0", "0">>)>>, <<<<"d">>, Num(4)>>,
           <<<<"e">>, Str(<<"u", "p">>)>> >>)
SomeText == Map(<< <<<<"t", "e", "x", "t">>, Str(<<"f", "l", "a", "t">>)>> >>)

\* what a section under 'data' may be
SectionPool ==
    {Map(<< <<TypeKey, Str(AnalyticsText)>>, <<ContentKey, SomeText>> >>),
     Map(<< <<TypeKey, Str(DescriptiveText)>>, <<ContentKey, FourNumbers>> >>),
     Map(<< <<TypeKey, Str(<<"c", "h", "a", "r", "t">>)>>, <<ContentKey, FourNumbers>> >>),
     Map(<< <<TypeKey, Num(1)>>, <<ContentKey, Null>> >>),
     Map(<< <<ContentKey, Lst(<<Num(1), Num(2), Num(3)>>)>> >>),
     FourNumbers,
     SomeText,
     Map(<<>>),
     Lst(<<Map(<< <<<<"x">>, Num(1)>> >>), Map(<< <<<<"x">>, Str(<<"2">>)>> >>),
           Map(<< <<<<"x">>, Num(3)>>, <<<<"y">>, Bool(TRUE)>> >>)>>),
     Str(<<"n", "/", "a">>),
     Null}

RECURSIVE DataMappings(_)
DataMappings(n) ==
    IF n = 0 THEN {<<>>}
    ELSE LET shorter == DataMappings(n - 1)
         IN  shorter \cup {Append(d, <<SectionNames[n], s>>) :
                              d \in {m \in shorter : Len(m) = n - 1}, s \in SectionPool}

ClientName == Str(<<"A", "c", "m", "e">>)

\* the raw inputs: nothing, no 'data', an empty or null or non-mapping 'data', a
\* 'data' mapping of sections; and an input that is no mapping
RawInputs ==
    {Map(<<>>), Null, Lst(<<Num(1)>>),
     Map(<< <<ClientNameKey, ClientName>> >>),
     Map(<< <<DataKey, Null>> >>),
     Map(<< <<DataKey, Lst(<<>>)>>, <<ClientNameKey, ClientName>> >>),
     Map(<< <<DataKey, Lst(<<Num(1), Num(2), Num(3)>>)>> >>)}
        \cup {Map(<< <<DataKey, Map(d)>> >>) : d \in DataMappings(MaxSections)}
        \cup {Map(<< <<ClientNameKey, ClientName>>, <<DataKey, Map(d)>> >>) :
                 d \in DataMappings(1)}

AnalyserConfigs ==
    {AnalyserConfig(AnalyticsSampleLimit, AnalyticsSeriesMinLength,
                    AnalyticsMinNumericValues),
     AnalyserConfig(2, AnalyticsSeriesMinLength, AnalyticsMinNumericValues),
     AnalyserConfig(AnalyticsSampleLimit, 4, 2)}

\* the state create_initial_state builds from the raw input
AnalyserInit ==
    /\ config \in AnalyserConfigs
    /\ raw_input \in RawInputs
    /\ client_name = IF IsDict(raw_input) THEN DictGet(raw_input.kv, ClientNameKey, Null)
                     ELSE Null
    /\ is_valid = FALSE
    /\ validation_errors = <<>>
    /\ sections_identified = <<>>
    /\ has_analytics = FALSE
    /\ has_descriptive = FALSE
    /\ pc = "analyse"
    /\ section_name = Names[1]
    /\ section_type = "analytics"
    /\ content = <<>>
    /\ chunks = <<>>
    /\ digest_batches = <<>>
    /\ chunk_outputs = <<>>
    /\ digests = <<>>
    /\ batches = <<>>
    /\ merged_outputs = <<>>
    /\ result = NoResult
    /\ sent = <<>>
    /\ round_in = 0
    /\ InvokerIdle
    /\ TableIdle
    /\ EstimatorIdle
    /\ GraphIdle

\* the type a section declares, when it declares one of the two
DeclaredType(value) ==
    IF value = Str(AnalyticsText) THEN "analytics"
    ELSE IF value = Str(DescriptiveText) THEN "descriptive"
    ELSE "other"

\* lines 50-61: the content and the type of one section
section_content(section_data) ==
    IF IsDict(section_data) /\ HasKey(section_data.kv, ContentKey)
    THEN normalize_content(DictGet(section_data.kv, ContentKey, Map(<<>>)))
    ELSE normalize_content(section_data)

\* variant: a declared type is kept whatever it is
section_type_of_as_declared(cfg, section_data) ==
    IF IsDict(section_data) /\ HasKey(section_data.kv, ContentKey)
    THEN DeclaredType(DictGet(section_data.kv, TypeKey, Str(DescriptiveText)))
    ELSE infer_section_type(cfg, section_content(section_data))

section_type_of(cfg, section_data) ==
    LET declared ==
            IF IsDict(section_data) /\ HasKey(section_data.kv, ContentKey)
            THEN DeclaredType(DictGet(section_data.kv, TypeKey, Str(DescriptiveText)))
            ELSE infer_section_type(cfg, section_content(section_data))
    IN  IF declared \notin {"analytics", "descriptive"}
        THEN infer_section_type(cfg, section_content(section_data))
        ELSE declared

\* lines 49-75: the entry appended for each section of 'data', in order
identified_sections(cfg, data) ==
    [i \in 1..Len(data) |->
        [name |-> format_section_name(data[i][1]),
         original_name |-> data[i][1],
         type |-> section_type_of(cfg, data[i][2]),
         content |-> section_content(data[i][2])]]

\* lines 63-67: has_analytics (analytics = TRUE) is set by a section of type
\* 'analytics', has_descriptive by a section of any other type
tracked(cfg, data, analytics) ==
    \E i \in 1..Len(data) :
        (section_type_of(cfg, data[i][2]) = "analytics") = analytics

\* the 'data' of a raw input that is a mapping: raw_input.get('data', {})
DataOf(raw) == DictGet(raw.kv, DataKey, Map(<<>>))

\* lines 28-92: what process does to the state; a raw input or a 'data' that is
\* no mapping and not empty has no .get or .items and process raises
AnalyserStep ==
    /\ pc = "analyse"
    /\ IF Falsy(raw_input)
       THEN /\ validation_errors' = <<InputIsEmpty>>
            /\ is_valid' = FALSE
            /\ pc' = "analysed"
            /\ UNCHANGED <<sections_identified, has_analytics, has_descriptive,
                           client_name>>
       ELSE IF ~IsDict(raw_input)
       THEN /\ pc' = "analyser_raised"
            /\ UNCHANGED <<validation_errors, is_valid, sections_identified,
                           has_analytics, has_descriptive, client_name>>
       ELSE IF Falsy(DataOf(raw_input))
       THEN /\ validation_errors' = <<NoDataSection>>
            /\ is_valid' = FALSE
            /\ pc' = "analysed"
            /\ UNCHANGED <<sections_identified, has_analytics, has_descriptive,
                           client_name>>
       ELSE IF ~IsDict(DataOf(raw_input))
       THEN /\ pc' = "analyser_raised"
            /\ UNCHANGED <<validation_errors, is_valid, sections_identified,
                           has_analytics, has_descriptive, client_name>>
       ELSE LET found == identified_sections(config, DataOf(raw_input).kv)
                errors == IF found = <<>> THEN <<NoValidSections>> ELSE <<>>
            IN  /\ validation_errors' = errors
                /\ is_valid' = (Len(errors) = 0)
                /\ sections_identified' = found
                /\ has_analytics' = tracked(config, DataOf(raw_input).kv, TRUE)
                /\ has_descriptive' = tracked(config, DataOf(raw_input).kv, FALSE)
                /\ client_name' = DictGet(raw_input.kv, ClientNameKey, Null)
                /\ pc' = "analysed"
    /\ UNCHANGED raw_input

\* process called on a state of its own
AnalyserProcess ==
    /\ AnalyserStep
    /\ UNCHANGED <<invoker_vars, table_vars, estimator_vars, graph_vars>>
    /\ UNCHANGED <<config, section_name, section_type, content, chunks, digest_batches,
                   chunk_outputs, digests, batches, merged_outputs, result, sent,
                   round_in>>

AnalyserSpec == AnalyserInit /\ [][AnalyserProcess]_vars

----------------------------------------------------------------------------
(* The workflow graph of app/agents/graph.py: the agents run as its nodes, each
   followed by the routing function on its outgoing edge.  The writer node is
   followed through _generate_structured_content for the first planned section
   (the steps Generate .. Return above); its other sections and its table
   summaries are taken to return or to raise. *)

NoInputData ==
    <<"N", "o", " ", "i", "n", "p", "u", "t", " ", "d", "a", "t", "a", " ", "p",
      "r", "o", "v", "i", "d", "e", "d">>

InputMustBeObject ==
    <<"I", "n", "p", "u", "t", " ", "m", "u", "s", "t", " ", "b", "e", " ", "a",
      " ", "J", "S", "O", "N", " ", "o", "b", "j", "e", "c", "t">>

InputNeedsData ==
    <<"I", "n", "p", "u", "t", " ", "m", "u", "s", "t", " ", "c", "o", "n", "t",
      "a", "i", "n", " ", "a", " ", "'", "d", "a", "t", "a", "'", " ", "f", "i",
      "e", "l", "d">>

DataMustBeObject ==
    <<"'", "d", "a", "t", "a", "'", " ", "f", "i", "e", "l", "d", " ", "m", "u",
      "s", "t", " ", "b", "e", " ", "a", " ", "J", "S", "O", "N", " ", "o", "b",
      "j", "e", "c", "t">>

DataIsEmpty ==
    <<"'", "d", "a", "t", "a", "'", " ", "f", "i", "e", "l", "d", " ", "c", "a",
      "n", "n", "o", "t", " ", "b", "e", " ", "e", "m", "p", "t", "y">>

AgentFailed ==
    <<"A", "g", "e", "n", "t", " ", "f", "a", "i", "l", "e", "d">>

FailedToBuildPdf ==
    <<"F", "a", "i", "l", "e", "d", " ", "t", "o", " ", "b", "u", "i", "l", "d",
      " ", "P", "D", "F">>

\* orchestrator.py lines 29-58: the error process leaves in the state
orchestrator_process(raw, err) ==
    IF Falsy(raw) THEN Str(NoInputData)
    ELSE IF ~IsDict(raw) THEN Str(InputMustBeObject)
    ELSE IF ~HasKey(raw.kv, DataKey) THEN Str(InputNeedsData)
    ELSE IF ~IsDict(DataOf(raw)) THEN Str(DataMustBeObject)
    ELSE IF Falsy(DataOf(raw)) THEN Str(DataIsEmpty)
    ELSE err

should_continue_after_orchestrator(err) ==
    IF ~Falsy(err) THEN "end" ELSE "input_analyser"

should_continue_after_analysis(err, valid) ==
    IF ~Falsy(err) \/ ~valid THEN "end" ELSE "planner"

determine_content_processing(err, analytics, descriptive) ==
    IF ~Falsy(err) THEN "content_builder"
    ELSE IF analytics /\ descriptive THEN "both"
    ELSE IF analytics THEN "visualizer_only"
    ELSE IF descriptive THEN "writer_only"
    ELSE "content_builder"

should_continue_after_writer(analytics) ==
    IF analytics THEN "visualizer" ELSE "content_builder"

\* the node an edge label leads to (create_pdf_workflow, lines 109-154)
Edge(label) ==
    CASE label = "end" -> "END"
      [] label \in {"writer_only", "both"} -> "writer"
      [] label = "visualizer_only" -> "visualizer"
      [] OTHER -> label

GraphSectionNames == << <<"q", "3">>, <<"s", "a", "l", "e", "s">> >>

\* a second section of either type, or none
SecondSections ==
    {Map(<< <<TypeKey, Str(AnalyticsText)>>, <<ContentKey, SomeText>> >>),
     Map(<< <<TypeKey, Str(DescriptiveText)>>, <<ContentKey, SomeText>> >>)}

\* what the first section may be: the analyser's pool, and two sections whose
\* content takes two chunks under the chunk budget of 158
FirstSections ==
    SectionPool
        \cup {Map(<< <<TypeKey, Str(t)>>, <<ContentKey, Map(Payloads[3])>> >>) :
                 t \in {AnalyticsText, DescriptiveText}}

GraphData ==
    {<< <<GraphSectionNames[1], s>> >> : s \in FirstSections}
        \cup {<< <<GraphSectionNames[1], s>>, <<GraphSectionNames[2], t>> >> :
                 s \in FirstSections, t \in SecondSections}

GraphInputs ==
    {Map(<<>>), Null, Lst(<<Num(1)>>),
     Map(<< <<ClientNameKey, ClientName>> >>),
     Map(<< <<DataKey, Null>> >>),
     Map(<< <<DataKey, Map(<<>>)>> >>),
     Map(<< <<DataKey, Lst(<<Num(1), Num(2), Num(3)>>)>> >>)}
        \cup {Map(<< <<DataKey, Map(d)>> >>) : d \in GraphData}

\* app.config.config: the analyser's settings and the writer's budgets
GraphConfigs ==
    {AnalyserConfig(AnalyticsSampleLimit, AnalyticsSeriesMinLength,
                    AnalyticsMinNumericValues) @@ c :
        c \in {Config(8000, 165, 3, 8000, 8000, 8000),
               Config(100, 158, 2, 220, 8000, 8000),
               Config(100, 158, 1, 8000, 260, 8000)}}

\* run_workflow(create_initial_state(input_data))
GraphInit ==
    /\ config \in GraphConfigs
    /\ raw_input \in GraphInputs
    /\ client_name = IF IsDict(raw_input) THEN DictGet(raw_input.kv, ClientNameKey, Null)
                     ELSE Null
    /\ is_valid = FALSE
    /\ validation_errors = <<>>
    /\ sections_identified = <<>>
    /\ has_analytics = FALSE
    /\ has_descriptive = FALSE
    /\ error = Null
    /\ node = "orchestrator"
    /\ visited = <<>>
    /\ pc = "analyse"
    /\ section_name = Names[1]
    /\ section_type = "analytics"
    /\ content = <<>>
    /\ chunks = <<>>
    /\ digest_batches = <<>>
    /\ chunk_outputs = <<>>
    /\ digests = <<>>
    /\ batches = <<>>
    /\ merged_outputs = <<>>
    /\ result = NoResult
    /\ sent = <<>>
    /\ round_in = 0
    /\ InvokerIdle
    /\ TableIdle
    /\ EstimatorIdle

writer_locals == <<chunks, digest_batches, chunk_outputs, digests, batches,
                   merged_outputs, result, sent, round_in>>

orchestrator ==
    /\ node = "orchestrator"
    /\ error' = orchestrator_process(raw_input, error)
    /\ visited' = Append(visited, "orchestrator")
    /\ node' = Edge(should_continue_after_orchestrator(error'))
    /\ UNCHANGED <<config, section_name, section_type, content, pc, writer_locals>>
    /\ UNCHANGED <<invoker_vars, table_vars, analyser_vars, estimator_vars>>

\* base.py lines 38-47: an agent that raises leaves its error in the state
input_analyser ==
    /\ node = "input_analyser"
    /\ AnalyserStep
    /\ error' = IF pc' = "analyser_raised" THEN Str(AgentFailed) ELSE error
    /\ visited' = Append(visited, "input_analyser")
    /\ node' = Edge(should_continue_after_analysis(error', is_valid'))
    /\ UNCHANGED <<config, section_name, section_type, content, writer_locals>>
    /\ UNCHANGED <<invoker_vars, table_vars, estimator_vars>>

\* planner.py lines 20-65: the plans take name, type and content from the sections
planner ==
    /\ node = "planner"
    /\ visited' = Append(visited, "planner")
    /\ node' = Edge(determine_content_processing(error, has_analytics, has_descriptive))
    /\ UNCHANGED error
    /\ UNCHANGED <<config, section_name, section_type, content, pc, writer_locals>>
    /\ UNCHANGED <<invoker_vars, table_vars, analyser_vars, estimator_vars>>

\* writer.py lines 28-46: process begins; the first plan is handed to
\* _generate_structured_content
writer ==
    /\ node = "writer"
    /\ visited' = Append(visited, "writer")
    /\ IF ~Falsy(error) \/ sections_identified = <<>>
       THEN /\ node' = Edge(should_continue_after_writer(has_analytics))
            /\ UNCHANGED <<section_name, section_type, content, pc>>
       ELSE /\ section_name' = sections_identified[1].name
            /\ section_type' = sections_identified[1].type
            /\ content' = sections_identified[1].content
            /\ pc' = "start"
            /\ node' = "writer_running"
    /\ UNCHANGED error
    /\ UNCHANGED <<config, writer_locals>>
    /\ UNCHANGED <<invoker_vars, table_vars, analyser_vars, estimator_vars>>

\* writer.py lines 47-78: the other sections and the table summaries return or
\* raise (base.py 45-47); then the edge out of the writer
writer_return ==
    /\ node = "writer_running"
    /\ pc = "done"
    /\ error' \in {error, Str(AgentFailed)}
    /\ node' = Edge(should_continue_after_writer(has_analytics))
    /\ UNCHANGED visited
    /\ UNCHANGED <<config, section_name, section_type, content, pc, writer_locals>>
    /\ UNCHANGED <<invoker_vars, table_vars, analyser_vars, estimator_vars>>

\* visualizer.py lines 21-69: a chart that fails is logged, not raised
visualizer ==
    /\ node = "visualizer"
    /\ visited' = Append(visited, "visualizer")
    /\ node' = "content_builder"
    /\ UNCHANGED error
    /\ UNCHANGED <<config, section_name, section_type, content, pc, writer_locals>>
    /\ UNCHANGED <<invoker_vars, table_vars, analyser_vars, estimator_vars>>

\* content_builder.py lines 21-57: the PDF is built, or the failure recorded
content_builder ==
    /\ node = "content_builder"
    /\ visited' = Append(visited, "content_builder")
    /\ error' \in IF ~Falsy(error) THEN {error} ELSE {error, Str(FailedToBuildPdf)}
    /\ node' = "END"
    /\ UNCHANGED <<config, section_name, section_type, content, pc, writer_locals>>
    /\ UNCHANGED <<invoker_vars, table_vars, analyser_vars, estimator_vars>>

GraphNext ==
    \/ orchestrator
    \/ input_analyser
    \/ planner
    \/ writer
    \/ Next
    \/ writer_return
    \/ visualizer
    \/ content_builder

GraphSpec == GraphInit /\ [][GraphNext]_vars

\* the workflow keeps taking steps until it is at END: weak fairness of every
\* agent's step and of the steps inside the writer.  For input_analyser and for
\* the steps inside the writer it is written out as for MergeFair
\* ([]<>~ENABLED \/ []<>step): input_analyser is enabled exactly at its node,
\* and a step of the writer exactly while the writer is running and not done
GraphFair ==
    /\ GraphSpec
    /\ WF_vars(orchestrator)
    /\ WF_vars(planner)
    /\ WF_vars(writer)
    /\ WF_vars(writer_return)
    /\ WF_vars(visualizer)
    /\ WF_vars(content_builder)
    /\ ([]<>(node # "input_analyser") \/ []<><<input_analyser>>_vars)
    /\ ([]<>(~(node = "writer_running" /\ pc # "done")) \/ []<><<Next>>_vars)


----------------------------------------------------------------------------
(* The properties checked *)

LastCall(log) == log[Len(log)]

KindsIn(log, kind) == {i \in 1..Len(log) : log[i].kind = kind}

\* the record the code spells out when the collaborator raises
SpelledFallback(name) ==
    [description |-> ThisSectionCovers \o name \o <<".">>, bullets |-> <<>>,
     findings |-> <<>>, summary |-> SummaryOf \o name \o <<".">>]

IsText(s) == \A i \in 1..Len(s) : s[i] \in STRING

IsTextList(ss) == \A i \in 1..Len(ss) : IsText(ss[i])

\* C6: the shape of a StructuredRecord
WellFormed(r) ==
    /\ {"description", "bullets", "findings", "summary"} \subseteq DOMAIN r
    /\ IsText(r.description) /\ r.description # <<>>
    /\ IsText(r.summary) /\ r.summary # <<>>
    /\ IsTextList(r.bullets)
    /\ IsTextList(r.findings)

\* every text held anywhere in a JSON value
RECURSIVE StringsOf(_)
StringsOf(v) ==
    CASE IsStr(v) -> {v.s}
      [] IsList(v) -> UNION {StringsOf(v.xs[i]) : i \in 1..Len(v.xs)}
      [] IsDict(v) -> UNION {StringsOf(v.kv[i][2]) : i \in 1..Len(v.kv)}
      [] OTHER -> {}

\* the texts of the Payload and the windows split_text cuts them into
PayloadTexts ==
    UNION {{s} \cup {split_text(s, config.max_field_chars)[j] :
                        j \in 1..Len(split_text(s, config.max_field_chars))} :
           s \in StringsOf(Map(content))}

ChunkTexts == UNION {StringsOf(Map(chunks[i])) : i \in 1..Len(chunks)}

ChunkKeySet == UNION {KeySet(chunks[i]) : i \in 1..Len(chunks)}

\* C1: in a merge started with two or more records, every round of the reduction
\* loop ends with strictly fewer records in the frontier than it began with
C1_RoundShrinksFrontier ==
    (pc = "round" /\ round_in > 0) => Len(merged_outputs) < round_in

\* C2: a merge of one or more records eventually terminates, returning one record
C2_MergeTerminates == <>(pc = "merged" /\ WellFormed(result))

\* C3: every per-chunk prompt sent, rendered with the detailed response sizes, is
\* within the chunk budget, unless the chunk is one the Fit Checker rejected
C3_SentChunkPromptFits ==
    \A i \in KindsIn(sent, "chunk") :
        fits_budget(section_name, section_type, chunks[sent[i].index],
                    config.chunk_budget)
            => sent[i].tokens <= config.chunk_budget

\* C4: the top-level keys of the chunks returned by _chunk_content are exactly
\* the keys of the Payload
C4_ChunkKeysArePayloadKeys ==
    pc = "chunked" => ChunkKeySet = KeySet(content)

C4_Witness ==
    /\ pc = "chunked"
    /\ Len(content) = 2
    /\ Len(chunks) >= 3
    /\ \E i \in 1..Len(chunks) :
          /\ ~fits_budget(section_name, section_type, chunks[i], config.chunk_budget)
          /\ \E s \in StringsOf(Map(chunks[i])) : EndsWith(s, TruncationMarker)

\* C5: a call on which the collaborator raises yields exactly the fallback record
\* spelled with the section name, is made once, and the run goes on to the next
\* position
C5_RaiseYieldsFallback ==
    [][(sent' # sent /\ LastCall(sent').raised) =>
          /\ Len(sent') = Len(sent) + 1
          /\ CASE LastCall(sent').kind = "whole" ->
                    /\ result' = SpelledFallback(section_name)
                    /\ pc' = "done"
               [] LastCall(sent').kind \in {"chunk", "digest"} ->
                    /\ chunk_outputs' =
                          Append(chunk_outputs, SpelledFallback(section_name))
                    /\ LastCall(sent').index = Len(chunk_outputs')
                    /\ pc' \in {"chunks", "digest", "merge"}
               [] OTHER ->
                    /\ merged_outputs' =
                          Append(merged_outputs, SpelledFallback(section_name))
                    /\ LastCall(sent').index = Len(merged_outputs')
                    /\ pc' \in {"batch", "round"}
      ]_vars

C5_Witness ==
    /\ pc = "done"
    /\ \E i \in KindsIn(sent, "chunk") :
          /\ sent[i].raised
          /\ i < Len(sent)
          /\ sent[i + 1].kind = "chunk"
          /\ ~sent[i + 1].raised
          /\ chunk_outputs[sent[i].index] = SpelledFallback(section_name)
    /\ \E j \in KindsIn(sent, "merge") : sent[j].raised
    /\ result.summary = SummaryOf \o section_name \o <<".">>

\* C6: every record returned by _invoke_structured_response, and the final record,
\* has the four fields, description and summary non-empty texts, bullets and
\* findings lists of texts
C6_RecordsWellFormed ==
    /\ \A i \in 1..Len(chunk_outputs) : WellFormed(chunk_outputs[i])
    /\ \A i \in 1..Len(merged_outputs) : WellFormed(merged_outputs[i])
    /\ result # NoResult => WellFormed(result)
    /\ pc = "done" => result # NoResult

C6_Witness ==
    /\ pc = "done"
    /\ Len(sent) = 1
    /\ ~sent[1].raised
    /\ result.description = ThisSectionCovers \o section_name \o <<".">>
    /\ result.summary = result.description

\* C7: merge([r]) returns r as it is, merge([]) returns the fallback record, and
\* neither makes a generation call
C7_MergeOfOneOrNone ==
    (pc = "merged" /\ Len(chunk_outputs) <= 1) =>
        /\ sent = <<>>
        /\ Len(chunk_outputs) = 1 => result = chunk_outputs[1]
        /\ Len(chunk_outputs) = 0 => result = SpelledFallback(section_name)

C7_Witness ==
    /\ pc = "merged"
    /\ Len(chunk_outputs) = 1
    /\ chunk_outputs[1].bullets # <<>>
    /\ result = chunk_outputs[1]

\* C8: when the base prompt of the whole Payload fits the input budget, exactly
\* one call is made, with the whole Payload; nothing is split, digested or merged
\* and the record of that call is returned without parts
C8_WholeFitsOneCall ==
    fits_tokens(section_name, section_type, content) <= config.input_budget =>
        /\ chunks = <<>> /\ digest_batches = <<>> /\ chunk_outputs = <<>>
        /\ merged_outputs = <<>> /\ batches = <<>>
        /\ Len(sent) <= 1
        /\ \A i \in 1..Len(sent) :
              /\ sent[i].kind = "whole"
              /\ sent[i].tokens = fits_tokens(section_name, section_type, content)
        /\ pc = "done" =>
              /\ Len(sent) = 1
              /\ "parts" \notin DOMAIN result
              /\ \E r \in 1..Len(Replies) :
                    /\ Replies[r].raised = sent[1].raised
                    /\ result = Respond(r, section_name)

C8_Witness ==
    /\ pc = "done"
    /\ fits_tokens(section_name, section_type, content) <= config.input_budget
    /\ fits_tokens(section_name, section_type, content) > config.chunk_budget
    /\ Len(sent) = 1
    /\ result.findings # <<>>

Merging == pc \in {"merge", "round", "batch", "merged", "done"}

\* C9: when the Payload does not fit the input budget: with more chunks than the
\* call ceiling no per-chunk prompt is ever sent and a digest-batch prompt goes
\* before any merge prompt; with one chunk up to the ceiling, the detailed prompt
\* of each chunk is sent once, in chunk order, before any merge prompt
C9_PathByChunkCount ==
    (pc # "start" /\ chunks # <<>>) =>
        IF Len(chunks) > config.max_chunk_calls
        THEN /\ KindsIn(sent, "chunk") = {}
             /\ KindsIn(sent, "whole") = {}
             /\ \A j \in KindsIn(sent, "merge") :
                   \E i \in KindsIn(sent, "digest") : i < j
             /\ Merging => KindsIn(sent, "digest") = 1..Len(digest_batches)
             /\ digest_batches # <<>>
        ELSE /\ KindsIn(sent, "digest") = {}
             /\ KindsIn(sent, "whole") = {}
             /\ \A i \in KindsIn(sent, "chunk") :
                   /\ i <= Len(chunks)
                   /\ sent[i].index = i
                   /\ sent[i].tokens =
                         detail_tokens(section_name, section_type, chunks[i])
             /\ \A j \in KindsIn(sent, "merge") : j > Len(chunks)
             /\ Merging => KindsIn(sent, "chunk") = 1..Len(chunks)
             /\ ~Merging => KindsIn(sent, "chunk") = 1..Len(sent)

C9_Witness ==
    /\ pc = "done"
    /\ Len(chunks) > config.max_chunk_calls
    /\ Cardinality(KindsIn(sent, "digest")) >= 2
    /\ KindsIn(sent, "merge") # {}

\* C10: every text in a chunk that is not a text of the Payload, or a window of
\* one, ends with the truncation marker
C10_StandInsAreMarked ==
    pc = "chunked" =>
        \A s \in ChunkTexts : s \in PayloadTexts \/ EndsWith(s, TruncationMarker)

\* a character of a field text as the repaired reply holds it
RewrittenChar(c) ==
    CASE c = "\"" -> <<"\\", "\"">>
      [] c = "\\" -> <<"\\", "\\">>
      [] c = "\n" -> <<"\\", "n">>
      [] c = "\t" -> <<"\\", "t">>
      [] c = "\r" -> <<>>
      [] OTHER -> <<c>>

Rewritten(t) == Flatten([i \in 1..Len(t) |-> RewrittenChar(t[i])])

WithoutCR(t) == SelectSeq(t, LAMBDA c : c # "\r")

\* C11: in a reply whose object holds a field text with raw newlines, carriage
\* returns or tabs, _repair_json_string escapes the newlines and tabs and drops
\* the carriage returns inside the literal, leaves escaped characters and all
\* that is outside the literals as they are, and the reply parses to an object
\* whose description is the field text, newlines kept; fenced replies included
C11_RepairKeepsFieldText ==
    pc = "replied" =>
        \A t \in FieldTexts, o \in ObjectKinds, w \in WrapKinds :
            response_text = ObjectReply(t, o, w) =>
                /\ repair_json_string(response_text)
                      = Wrapped(w, ObjectAround(o, Rewritten(t)))
                /\ HasKey(parsed_reply, DescriptionKey)
                /\ DictGet(parsed_reply, DescriptionKey, Null) = Str(WithoutCR(t))

C11_Witness ==
    /\ pc = "replied"
    /\ response_text = ObjectReply(<<"q", "\"", "\n">>, "spread", "fenced")
    /\ DictGet(parsed_reply, DescriptionKey, Null) = Str(<<"q", "\"", "\n">>)
    /\ repair_json_string(response_text) # response_text

IsObject(loaded) == loaded.ok /\ IsDict(loaded.v)

\* whether the reply, fences stripped and cut from its first opening brace to
\* its last closing one, is a JSON object as it is or once repaired
HoldsObject(text) ==
    /\ text # <<>>
    /\ \/ IsObject(json_loads(outer_object(unfence(strip(text)))))
       \/ /\ ~json_loads(outer_object(unfence(strip(text)))).ok
          /\ IsObject(json_loads(repair_json_string(
                                    outer_object(unfence(strip(text))))))

\* where a sentence of the text ends: a full stop before a space or a line break
SentenceEnds(text) ==
    Occurrences(text, <<".", " ">>) \cup Occurrences(text, <<".", "\n">>)

\* the first sentence of a text; its first line when no sentence ends in it
FirstSentence(text) ==
    IF SentenceEnds(text) # {}
    THEN strip(SubSeq(text, 1, MinOf(SentenceEnds(text)) - 1)) \o <<".">>
    ELSE strip(Head(splitlines(text)))

\* C12: a reply that holds no JSON object gives the record whose description is
\* the trimmed reply (the fallback text for an empty reply), whose bullets and
\* findings are empty and whose summary is the first sentence of the description
C12_ProseReplyRecord ==
    (pc = "replied" /\ ~HoldsObject(response_text)) =>
        /\ result.description
              = (IF strip(response_text) # <<>> THEN strip(response_text)
                 ELSE ThisSectionCovers \o section_name \o <<".">>)
        /\ result.bullets = <<>>
        /\ result.findings = <<>>
        /\ result.summary = FirstSentence(result.description)

----------------------------------------------------------------------------
(* C13 *)

ListKey == content[1][1]
ListValue == content[1][2].xs

EachItemFits ==
    \A i \in 1..Len(ListValue) :
        fits_budget(section_name, section_type, One(ListKey, Lst(<<ListValue[i]>>)),
                    config.chunk_budget)

WholeListOverflows ==
    ~fits_budget(section_name, section_type, content, config.chunk_budget)

\* a fragment of the list: the one key, holding a list
IsListFragment(c) == Len(c) = 1 /\ c[1][1] = ListKey /\ IsList(c[1][2])

FragmentLists == [i \in 1..Len(chunks) |-> chunks[i][1][2].xs]

ListSplitContract ==
    /\ Len(chunks) >= 2
    /\ \A i \in 1..Len(chunks) :
          /\ IsListFragment(chunks[i])
          /\ fits_budget(section_name, section_type, chunks[i], config.chunk_budget)
    /\ (\A i \in 1..Len(chunks) : IsListFragment(chunks[i]))
           => Flatten(FragmentLists) = ListValue

\* C13 as stated: a list that overflows the budget while each of its items alone fits
\* is returned as two or more fragments, each fitting, whose lists in order make up
\* the original list
C13_ListSplitAsStated ==
    (pc = "listed" /\ EachItemFits /\ WholeListOverflows) => ListSplitContract

\* C13 for a list that has items: a non-empty list that overflows the budget while
\* each of its items alone fits is returned as two or more fragments, each a run of
\* the original items that fits, whose lists in order make up the original list
C13_NonEmptyListSplit ==
    (pc = "listed" /\ ListValue # <<>> /\ EachItemFits /\ WholeListOverflows)
        => ListSplitContract

C13_Witness ==
    /\ pc = "listed"
    /\ Len(ListValue) = MaxListLen
    /\ EachItemFits
    /\ WholeListOverflows
    /\ Len(chunks) >= 3
    /\ \E i \in 1..Len(chunks) : Len(chunks[i][1][2].xs) >= 2

----------------------------------------------------------------------------
(* C14 *)

TextKey == content[1][1]
TextValue == content[1][2].s
Window == config.max_field_chars

\* the text is split: it is not empty and the prompt that carries it overflows
TextIsSplit ==
    /\ pc = "expanded"
    /\ TextValue # <<>>
    /\ ~fits_budget(section_name, section_type, content, config.chunk_budget)

CeilDiv(a, b) == (a + b - 1) \div b

IsTextFragment(c) == Len(c) = 1 /\ c[1][1] = TextKey /\ IsStr(c[1][2])

FragmentTexts == [i \in 1..Len(chunks) |-> chunks[i][1][2].s]

\* C14: a text of length L > 0 is split into ceil(L / W) fragments under the same
\* key, in order, each of at most W characters and all but the last of exactly W,
\* whose concatenation is the text
C14_TextWindows ==
    TextIsSplit =>
        /\ Len(chunks) = CeilDiv(Len(TextValue), Window)
        /\ \A i \in 1..Len(chunks) :
              /\ IsTextFragment(chunks[i])
              /\ Len(chunks[i][1][2].s) <= Window
              /\ i < Len(chunks) => Len(chunks[i][1][2].s) = Window
        /\ (\A i \in 1..Len(chunks) : IsTextFragment(chunks[i]))
               => Flatten(FragmentTexts) = TextValue

\* 20,000 characters with W = 8000 give 8000/8000/4000
C14_Witness ==
    /\ TextIsSplit
    /\ Len(TextValue) = 20000
    /\ Window = 8000
    /\ Len(chunks) = 3
    /\ Len(chunks[1][1][2].s) = 8000
    /\ Len(chunks[2][1][2].s) = 8000
    /\ Len(chunks[3][1][2].s) = 4000

----------------------------------------------------------------------------
(* C16 *)

\* C16: no step of the synthesis (split, pack, shrink, digest, invoke, merge, return)
\* changes the caller's Payload, nested lists and mappings included
C16_PayloadUnchanged == [][content' = content]_vars

\* a run that split a Payload with nested lists and mappings, shrank a fragment,
\* called per chunk, merged and returned
C16_Witness ==
    /\ pc = "done"
    /\ \E i \in 1..Len(content) : IsDict(content[i][2])
    /\ \E i \in 1..Len(content) : IsList(content[i][2])
    /\ Len(chunks) >= 2
    /\ LastFragments(content, chunks) # content
    /\ KindsIn(sent, "chunk") # {}
    /\ KindsIn(sent, "merge") # {}
    /\ "parts" \in DOMAIN result

----------------------------------------------------------------------------
(* C17 *)

RewriteCalls == Cardinality(KindsIn(sent, "rewrite"))

\* the value the mapping holds under the key
ValueUnder(key) == DictGet(content, key, Null)

\* C17: in one invocation of _summarize_table_values the rewrite generation calls
\* never number more than LLM_TABLE_VALUE_REWRITE_MAX, and in what it returns every
\* summary that still needs rewriting is the mechanical fallback string of its value
C17_RewriteCap ==
    pc \in {"table", "tbatch", "tkey", "tabled", "attribute_error"} =>
        /\ RewriteCalls <= config.table_value_rewrite_max
        /\ pc = "tabled" =>
              \A i \in 1..Len(summaries) :
                  summary_needs_rewrite(summaries[i][2].s)
                      => summaries[i][2].s = fallback_table_value(ValueUnder(summaries[i][1]))

\* the rewrite calls alone
C17_RewriteCallsCapped ==
    pc \in {"tbatch", "tkey", "tabled"} => RewriteCalls <= config.table_value_rewrite_max

\* the returned summaries alone
C17_LeftoversFallBack ==
    pc = "tabled" =>
        \A i \in 1..Len(summaries) :
            summary_needs_rewrite(summaries[i][2].s)
                => summaries[i][2].s = fallback_table_value(ValueUnder(summaries[i][1]))

----------------------------------------------------------------------------
(* C18 *)

HasParts == "parts" \in DOMAIN result

\* the run called once per chunk
PerChunkPath == chunks # <<>> /\ ~over_ceiling(config, Len(chunks))
\* the run called once per batch of digests
DigestPath == chunks # <<>> /\ over_ceiling(config, Len(chunks))

\* the i-th record is the one the i-th call of the kind produced: the calls are
\* logged in order and a call that raised left the fallback record
RecordsFollowCalls(kind) ==
    /\ Cardinality(KindsIn(sent, kind)) = Len(chunk_outputs)
    /\ \A i \in KindsIn(sent, kind) :
          /\ \A j \in KindsIn(sent, kind) : i < j => sent[i].index < sent[j].index
          /\ sent[i].raised => chunk_outputs[sent[i].index] = SpelledFallback(section_name)

\* C18 as stated: the final record carries 'parts' exactly when more than one chunk
\* was required, and 'parts' then holds one record per chunk, in chunk order
C18_PartsAsStated ==
    pc = "done" =>
        /\ HasParts <=> Len(chunks) > 1
        /\ HasParts => Len(result.parts) = Len(chunks)

\* C18 with the digest path told apart: 'parts' is carried exactly when more than
\* one record went into the merge, and is those records in order; they are one per
\* chunk when the chunks are called one by one, and one per batch of digests when
\* the chunk count is over the ceiling; a single call, a single chunk or a single
\* batch of digests leaves no 'parts'
C18_PartsWhenSeveralRecords ==
    pc = "done" =>
        /\ HasParts <=> Len(chunk_outputs) > 1
        /\ HasParts => result.parts = chunk_outputs
        /\ PerChunkPath =>
              /\ Len(chunk_outputs) = Len(chunks)
              /\ RecordsFollowCalls("chunk")
              /\ HasParts <=> Len(chunks) > 1
        /\ DigestPath =>
              /\ Len(chunk_outputs) = Len(digest_batches)
              /\ RecordsFollowCalls("digest")
        /\ chunks = <<>> => chunk_outputs = <<>>

C18_Witness ==
    /\ pc = "done"
    /\ PerChunkPath
    /\ Len(chunks) >= 3
    /\ HasParts
    /\ result.parts[1] # result.parts[2]
    /\ \E i \in KindsIn(sent, "chunk") : sent[i].raised

----------------------------------------------------------------------------
(* C19 *)

\* the input is empty, or its 'data' is missing or empty
NothingToAnalyse ==
    \/ Falsy(raw_input)
    \/ IsDict(raw_input) /\ Falsy(DataOf(raw_input))

SomeSectionIs(type) ==
    \E i \in 1..Len(sections_identified) : sections_identified[i].type = type

\* C19: after process returns, an empty input, or one whose 'data' is missing or
\* empty, is left not valid, with a validation error and no identified section; on
\* every input is_valid holds exactly when there is no validation error, and
\* has_analytics and has_descriptive hold exactly when some identified section has
\* that type
C19_AnalyserVerdict ==
    pc = "analysed" =>
        /\ NothingToAnalyse =>
              /\ ~is_valid
              /\ Len(validation_errors) >= 1
              /\ sections_identified = <<>>
        /\ is_valid <=> validation_errors = <<>>
        /\ has_analytics <=> SomeSectionIs("analytics")
        /\ has_descriptive <=> SomeSectionIs("descriptive")

\* two sections, one analytics by its numbers after declaring an unknown type, one
\* descriptive
C19_Witness ==
    /\ pc = "analysed"
    /\ is_valid
    /\ Len(sections_identified) = 2
    /\ has_analytics
    /\ has_descriptive
    /\ \E i \in 1..Len(sections_identified) :
          /\ sections_identified[i].type = "analytics"
          /\ IsDict(DataOf(raw_input).kv[i][2])
          /\ DictGet(DataOf(raw_input).kv[i][2].kv, TypeKey, Null)
                 \notin {Null, Str(AnalyticsText)}

\* the input without 'data' is refused
C19_WitnessRefused ==
    /\ pc = "analysed"
    /\ raw_input # Map(<<>>)
    /\ NothingToAnalyse
    /\ validation_errors = <<NoDataSection>>

----------------------------------------------------------------------------
(* C20 *)

DisjointKeys(a, b) == KeySet(a) \cap KeySet(b) = {}

\* the fragments _chunk_mapping_payloads hands to _pack_payloads
PackedFragments ==
    Flatten([i \in 1..Len(content) |->
                expand_item(config, section_name, section_type, content[i][1],
                            content[i][2], config.chunk_budget)])

\* C20: a fragment that did not fit into the current batch but fits on its own
\* starts the next batch, which following fragments of other keys join while they
\* fit: no two adjacent batches with disjoint keys fit one batch together
C20_AdjacentBatchesMaximal ==
    pc = "chunked" =>
        \A i \in 1..(Len(chunks) - 1) :
            DisjointKeys(chunks[i], chunks[i + 1])
                => ~fits_budget(section_name, section_type,
                                DictUpdate(chunks[i], chunks[i + 1]), config.chunk_budget)

----------------------------------------------------------------------------
(* C21 *)

NestedKey == content[1][1]
NestedMapping == content[1][2].kv

\* the keys of the nested mapping found in the fragments under the parent key
NestedKeysKept ==
    UNION {KeySet(chunks[i][1][2].kv) :
              i \in {j \in 1..Len(chunks) :
                        /\ Len(chunks[j]) = 1
                        /\ chunks[j][1][1] = NestedKey
                        /\ IsDict(chunks[j][1][2])}}

NestedOverflows ==
    /\ pc = "chunked"
    /\ Len(content) = 1
    /\ IsDict(content[1][2])
    /\ ~fits_budget(section_name, section_type, content, config.chunk_budget)

\* C21: the fragments emitted for a nested mapping that does not fit contain,
\* together, every key of the nested mapping
C21_NestedKeysSurvive ==
    NestedOverflows => NestedKeysKept = KeySet(NestedMapping)

----------------------------------------------------------------------------
(* C22 *)

\* the items (or key-value pairs) of the single value of a one-key fragment
Elements(fragment) ==
    IF IsList(fragment[1][2]) THEN fragment[1][2].xs ELSE fragment[1][2].kv

Rewrap(fragment, elements) ==
    One(fragment[1][1],
        IF IsList(fragment[1][2]) THEN Lst(elements) ELSE Map(elements))

\* the lengths of the non-empty prefixes of the fragment's value that fit
FittingPrefixes ==
    {n \in 1..Len(Elements(content)) :
        fits_budget(section_name, section_type,
                    Rewrap(content, Take(Elements(content), n)), config.chunk_budget)}

Shrunk == chunks[1]

\* C22: when some non-empty prefix of the value fits, the shrink fallback
\* returns a prefix of the original value that fits (so a fitting first
\* element comes back unchanged); the first element is replaced by text only
\* when no prefix fits
C22_ShrinkFindsFittingPrefix ==
    (pc = "shrunk" /\ FittingPrefixes # {}) =>
        /\ \E n \in 1..Len(Elements(content)) :
               Shrunk = Rewrap(content, Take(Elements(content), n))
        /\ fits_budget(section_name, section_type, Shrunk, config.chunk_budget)

----------------------------------------------------------------------------
(* C23 *)

\* the fragments handed to the packer hold one key each and a key closes the
\* batch that already has it, so a batch is assembled from as many fragments
\* as it has keys
ChunkFits(i) ==
    fits_budget(section_name, section_type, chunks[i], config.chunk_budget)

\* C23: every batch assembled from two or more fragments fits the budget; a
\* batch that does not fit consists of exactly one fragment
C23_MergedBatchesFit ==
    pc = "chunked" =>
        \A i \in 1..Len(chunks) :
            /\ Len(chunks[i]) >= 2 => ChunkFits(i)
            /\ ~ChunkFits(i) => Len(chunks[i]) = 1

C23_Witness ==
    /\ pc = "chunked"
    /\ \E i, j \in 1..Len(chunks) :
          /\ Len(chunks[i]) >= 2
          /\ ~ChunkFits(j)

----------------------------------------------------------------------------
(* C24 *)

\* the single-key fragments _chunk_mapping_payloads hands to _pack_payloads
Fragments ==
    Flatten([i \in 1..Len(content) |->
                expand_item(config, section_name, section_type, content[i][1],
                            content[i][2], config.chunk_budget)])

\* the entries of the batches read in order
BatchEntries == Flatten(chunks)

NoEmptyBatch == \A i \in 1..Len(chunks) : chunks[i] # <<>>

\* C24 as stated: no batch is empty and the batches read in order are the
\* input fragments, each exactly once, in input order
C24_FragmentsOnceInOrder ==
    pc = "chunked" =>
        /\ NoEmptyBatch
        /\ BatchEntries = Flatten(Fragments)

\* C24 amended: no batch is empty and the batches read in order hold one entry
\* per input fragment, in input order and under its key: the fragment's value
\* unchanged when the fragment fits on its own, the result of the shrink
\* fallback when it does not
C24_FragmentsOrStandInsInOrder ==
    pc = "chunked" =>
        LET fragments == Fragments
            entries == BatchEntries
        IN  /\ NoEmptyBatch
            /\ Len(entries) = Len(fragments)
            /\ \A i \in 1..Len(fragments) :
                  /\ entries[i][1] = fragments[i][1][1]
                  /\ <<entries[i]>> =
                        IF fits_budget(section_name, section_type, fragments[i],
                                       config.chunk_budget)
                        THEN fragments[i]
                        ELSE shrink_payload_to_fit(config, section_name, section_type,
                                                   fragments[i], config.chunk_budget)

\* two fragments under one key, a fragment that was shrunk and one that was not
C24_Witness ==
    /\ pc = "chunked"
    /\ LET fragments == Fragments
       IN  /\ \E i, j \in 1..Len(fragments) :
                 i < j /\ fragments[i][1][1] = fragments[j][1][1]
           /\ \E i \in 1..Len(fragments) :
                 ~fits_budget(section_name, section_type, fragments[i],
                              config.chunk_budget)
           /\ \E i \in 1..Len(fragments) :
                 fits_budget(section_name, section_type, fragments[i],
                             config.chunk_budget)

----------------------------------------------------------------------------
(* C25 *)

ChunkDigests == [i \in 1..Len(chunks) |-> build_chunk_digest(chunks[i])]

\* C25: every digest batch sent has an estimated digest prompt within the
\* digest budget, and the batches, concatenated in order, are the digests of
\* the chunks
C25_DigestBatchesFit ==
    /\ \A i \in KindsIn(sent, "digest") : sent[i].tokens <= config.digest_budget
    /\ digest_batches # <<>> => Flatten(digest_batches) = ChunkDigests

----------------------------------------------------------------------------
(* C26 *)

\* a round is under way: its batches are made, its digests not yet replaced
InRound == pc = "batch"

\* a round has ended: every batch has been merged
RoundDone == pc = "round" /\ round_in > 0

\* the round's digests as the batches hold them: a digest that does not fit the
\* merge budget alone is reduced to its summary
FittedDigests ==
    [i \in 1..Len(digests) |->
        ensure_merge_fit(config, section_name, section_type, digests[i])]

\* C26 as stated: a round produces no more records than it consumed and one
\* record (one generation call) per batch; the batches are non-empty and,
\* concatenated in order, are the round's digests
C26_BatchesAreTheDigests ==
    /\ RoundDone =>
          /\ Len(merged_outputs) <= round_in
          /\ Len(merged_outputs) = Len(batches)
    /\ InRound =>
          /\ Len(merged_outputs) < Len(batches)
          /\ \A i \in 1..Len(batches) : batches[i] # <<>>
          /\ Flatten(batches) = digests

\* C26 amended: the same, the batches concatenated in order being the round's
\* digests with each digest too large on its own reduced to its summary
C26_BatchesAreTheFittedDigests ==
    /\ RoundDone =>
          /\ Len(merged_outputs) <= round_in
          /\ Len(merged_outputs) = Len(batches)
    /\ InRound =>
          /\ Len(merged_outputs) < Len(batches)
          /\ \A i \in 1..Len(batches) : batches[i] # <<>>
          /\ Flatten(batches) = FittedDigests

\* a round of two or more batches, one call made, one digest reduced
C26_Witness ==
    /\ InRound
    /\ Len(batches) >= 2
    /\ Len(merged_outputs) >= 1
    /\ FittedDigests # digests

----------------------------------------------------------------------------
(* C27 *)

\* the least integer not below a / b
Ceiling(a, b) == (a + b - 1) \div b

\* C27: with no tokenizer, the estimate of a prompt is the ceiling of its length
\* over the characters per token, plus that of the system prompt
C27_EstimateIsCeiling ==
    pc = "estimated" =>
        est_tokens = Ceiling(est_prompt_len, Max(CharsPerToken, 1))
                        + Ceiling(est_system_len, Max(CharsPerToken, 1))

----------------------------------------------------------------------------
(* C28 *)

DigestSummary(d) == DictGet(d, SummaryKey, Str(<<>>)).s
DigestBullets(d) == DictGet(d, BulletsKey, Lst(<<>>)).xs
DigestFindings(d) == DictGet(d, FindingsKey, Lst(<<>>)).xs

\* C28: the digest of a record has a summary of at most 500 characters, at most
\* 7 bullets and 5 findings, each of at most 300 characters
C28_DigestWithinCaps ==
    \A i \in 1..Len(digests) :
        /\ Len(DigestSummary(digests[i])) <= DigestSummaryChars
        /\ Len(DigestBullets(digests[i])) <= DigestMaxBullets
        /\ Len(DigestFindings(digests[i])) <= DigestMaxFindings
        /\ \A j \in 1..Len(DigestBullets(digests[i])) :
              Len(DigestBullets(digests[i])[j].s) <= DigestItemChars
        /\ \A j \in 1..Len(DigestFindings(digests[i])) :
              Len(DigestFindings(digests[i])[j].s) <= DigestItemChars

----------------------------------------------------------------------------
(* C29 *)

\* the digests of the chunks, as the digest path batched them
BatchedDigests == Flatten(digest_batches)

\* the digest of a value below the top level is capped as the claim says,
\* max_depth levels being left
RECURSIVE SampleCapped(_, _, _)
SampleCapped(digest, value, max_depth) ==
    IF max_depth <= 0
    THEN digest = Str(truncate_text(json_dumps(value), ChunkDigestTextChars))
    ELSE IF IsDict(value)
    THEN /\ IsDict(digest)
         /\ DictGet(digest.kv, KeyCountKey, Null) = Num(Len(value.kv))
         /\ DictGet(digest.kv, SampleKeysKey, Null) =
                Lst(Texts(Keys(Take(value.kv, ChunkDigestSampleKeys))))
         /\ LET sample == DictGet(digest.kv, SampleKey, Map(<<>>)).kv
            IN  /\ Keys(sample) = Keys(Take(value.kv, ChunkDigestSampleKeys))
                /\ \A i \in 1..Len(sample) :
                      SampleCapped(sample[i][2], value.kv[i][2], max_depth - 1)
    ELSE IF IsList(value)
    THEN /\ IsDict(digest)
         /\ DictGet(digest.kv, LengthKey, Null) = Num(Len(value.xs))
         /\ LET sample == DictGet(digest.kv, SampleKey, Lst(<<>>)).xs
            IN  /\ Len(sample) = Min(Len(value.xs), ChunkDigestSampleItems)
                /\ \A i \in 1..Len(sample) :
                      SampleCapped(sample[i], value.xs[i], max_depth - 1)
    ELSE TRUE

\* C29: the digest of a chunk is sample-capped at every level, the chunk's own
\* mapping included: it holds at most the first 5 keys of the chunk, and under
\* each key a digest with at most 5 keys of a mapping and 3 items of a list,
\* the true key_count and length, and below depth 2 the truncated serialization
C29_ChunkDigestCapped ==
    digest_batches # <<>> =>
        \A i \in 1..Len(chunks) :
            /\ Keys(BatchedDigests[i]) =
                  Keys(Take(chunks[i], ChunkDigestSampleKeys))
            /\ \A k \in 1..Len(BatchedDigests[i]) :
                  SampleCapped(BatchedDigests[i][k][2], chunks[i][k][2],
                               ChunkDigestDepth)

\* the same below the top level only (what the code does at the top level is
\* to keep every key)
C29_NestedLevelsCapped ==
    digest_batches # <<>> =>
        \A i \in 1..Len(chunks) :
            /\ Keys(BatchedDigests[i]) = Keys(chunks[i])
            /\ \A k \in 1..Len(BatchedDigests[i]) :
                  SampleCapped(BatchedDigests[i][k][2], chunks[i][k][2],
                               ChunkDigestDepth)

Ran(agent) == \E i \in DOMAIN visited : visited[i] = agent

\* the place of an agent in the run, 0 when it has not run
PlaceOf(agent) ==
    IF Ran(agent) THEN CHOOSE i \in DOMAIN visited : visited[i] = agent ELSE 0

OrchestratorSetError == ~Falsy(orchestrator_process(raw_input, Null))

C30_AgentsRunAsRouted ==
    /\ \A i, j \in DOMAIN visited : visited[i] = visited[j] => i = j
    /\ (OrchestratorSetError \/ ~is_valid) =>
          \A a \in {"planner", "writer", "visualizer", "content_builder"} : ~Ran(a)
    /\ (Ran("writer") /\ Ran("visualizer")) => PlaceOf("writer") < PlaceOf("visualizer")
    /\ Ran("content_builder") => visited[Len(visited)] = "content_builder"
    /\ Ran("writer") => has_descriptive
    /\ Ran("visualizer") => has_analytics
    /\ (node = "END" /\ ~OrchestratorSetError /\ is_valid) =>
          /\ Ran("writer") <=> has_descriptive
          /\ Ran("visualizer") <=> has_analytics
          /\ Ran("content_builder")

\* a run at END in which writer, visualizer and content_builder all ran
C30_RoutedWitness ==
    /\ node = "END"
    /\ visited = <<"orchestrator", "input_analyser", "planner", "writer",
                   "visualizer", "content_builder">>

====
